---- MODULE Spec2Model ----
(***************************************************************************)
(* SweepstacX scan engine.                                                 *)
(*                                                                         *)
(*   - dead-file analysis (src/analyzers/dead-files.js): import            *)
(*     resolution, graph build, entry points, breadth-first reachability;  *)
(*   - the scan command (src/commands/scan.js): the per-file loop of       *)
(*     runScan and its error path;                                         *)
(*   - the chunked pool (src/utils/parallel.js, processInParallel);        *)
(*   - the worker pool (src/utils/parallel-processor.js,                   *)
(*     processFilesInParallel) and its worker (src/workers/scan-worker.js);*)
(*   - the result cache (src/utils/cache.js) and two scans of one tree;    *)
(*   - the unused-import detectors (src/commands/scan.js,                  *)
(*     src/analyzers/typescript.js) on tokenised texts;                    *)
(*   - batchProcess (src/utils/parallel.js);                               *)
(*   - watch mode (src/commands/watch.js).                                 *)
(*                                                                         *)
(* A path is a sequence of segments (the path split on '/'), a segment is  *)
(* the sequence of its parts split on '.': "lib/index.ts" is               *)
(* << <<"lib">>, <<"index","ts">> >>, "." is <<"","">> and ".." is         *)
(* <<"","","">>.  For the dead-file analysis the text of a file is the     *)
(* list of module specifiers its import/require statements name, in        *)
(* textual order; for the scan command it is the sequence of its tokens.   *)
(***************************************************************************)
EXTENDS Integers, Sequences, FiniteSets, TLC

\* ------------------------------------------------------------------------
\* Bounds of the model
\* ------------------------------------------------------------------------
MaxFiles == 3
MaxImports == 2

\* ------------------------------------------------------------------------
\* State of detectDeadFiles(files, root)
\* ------------------------------------------------------------------------
VARIABLES
  files,        \* the discovered file list (absolute paths)
  content,      \* file -> the specifiers its text names, for the files read so far
  unreadable,   \* the files whose readFile rejected
  dd_pc,        \* "call", "build", "bfs", "done", or "off"
  buildIdx,     \* position of the graph-build loop in files
  importGraph,  \* file -> files it imports (insertion order)
  importedBy,   \* file -> files that import it (insertion order)
  resolved,     \* every call of resolveImportPath made so far, with its result
  entryPoints,  \* result of findEntryPoints
  used,         \* files marked reachable
  queue,        \* BFS queue
  enqueued,     \* file -> how often it was put in the queue (history, saturates at 2)
  deadFiles     \* the result: relative paths

deadVars == << files, content, unreadable, dd_pc, buildIdx, importGraph, importedBy,
               resolved, entryPoints, used, queue, enqueued, deadFiles >>

\* ------------------------------------------------------------------------
\* State of runScan(opts)
\* ------------------------------------------------------------------------
VARIABLES
  sc_files,      \* result of the glob
  sc_disk,       \* file -> its text
  sc_readError,  \* file -> "none", or the code readFile rejects with
  sc_noCache,    \* whether opts.noCache is truthy
  sc_cache,      \* cache key -> stored entry (the cache directory)
  sc_now,        \* Date.now()
  sc_pc,         \* position in runScan
  sc_idx,        \* position of the per-file loop in sc_files
  sc_key,        \* cacheKey of the current file
  sc_fileIssues, \* fileIssues of the current file
  sc_issues,     \* issues
  sc_warnings,   \* warnings: the text and the file it is about (<<>> if none)
  sc_deadFiles,  \* result of detectDeadFiles
  sc_report,     \* the report written to sweepstacx-report.json
  sc_stderr,     \* what showError printed
  sc_exitCode,   \* the code process.exit was called with, -1 while running
  sc_cacheWritable, \* whether mkdir and writeFile in the cache directory succeed
  sc_run,        \* 1 in the first scan of the tree, 2 in the second
  sc_calls,      \* the files the unused-import pass ran on in this scan
  sc_hits,       \* the files whose issues came from the cache in this scan
  sc_modified,   \* the files edited since the first scan started
  sc_startCache, \* the cache directory when this scan started
  sc_firstNow,   \* Date.now() at the end of the first scan
  sc_firstReport, \* the report of the first scan
  sc_argv        \* the command line of `sweepstacx scan`, <<>> when runScan is called directly

scanRun == << sc_cacheWritable, sc_run, sc_modified, sc_startCache, sc_firstNow,
              sc_firstReport, sc_argv >>

scanVars == << sc_files, sc_disk, sc_readError, sc_noCache, sc_cache, sc_now, sc_pc,
               sc_idx, sc_key, sc_fileIssues, sc_issues, sc_warnings, sc_deadFiles,
               sc_report, sc_stderr, sc_exitCode, sc_calls, sc_hits, scanRun >>

\* ------------------------------------------------------------------------
\* State of processInParallel(files, processFn, options)
\* ------------------------------------------------------------------------
VARIABLES
  pl_files,        \* files
  pl_maxWorkers,   \* options.maxWorkers
  pl_throws,       \* the files processFn throws on
  pl_pc,           \* "start", "seq", "chunks", "done" or "rejected"
  pl_i,            \* position of the sequential loop
  pl_results,      \* results of the sequential loop
  pl_chunks,       \* chunks
  pl_pos,          \* chunk -> position of processChunk's loop in it
  pl_chunkResults, \* chunk -> results of processChunk so far
  pl_output,       \* the value the returned promise resolves to
  pl_rejection     \* the error the returned promise rejects with

poolVars == << pl_files, pl_maxWorkers, pl_throws, pl_pc, pl_i, pl_results, pl_chunks,
               pl_pos, pl_chunkResults, pl_output, pl_rejection >>

\* ------------------------------------------------------------------------
\* State of processFilesInParallel(files, options) (utils/parallel-processor.js)
\* ------------------------------------------------------------------------
VARIABLES
  wk_files,         \* files
  wk_cpus,          \* cpus().length
  wk_maxWorkers,    \* maxWorkers
  wk_disk,          \* file -> its text, or Unreadable
  wk_pc,            \* "start", "pool", "done" or "rejected"
  wk_workers,       \* the workers created, by index: "live" or "terminated"
  wk_loop,          \* worker -> state of its dispatch loop (lines 49-66)
  wk_inflight,      \* the << worker, file >> pairs posted and not settled
  wk_fileQueue,     \* fileQueue
  wk_workerResults, \* worker -> workerResults
  wk_timedOut,      \* the files whose 30 s timer fired
  wk_crashed,       \* the files whose worker emitted 'error'
  wk_attempts,      \* file -> number of times it was posted to a worker
  wk_output,        \* the value the returned promise resolves to
  wk_rejection,     \* the error the returned promise rejects with
  wk_processedCount, \* processedCount
  wk_progress       \* the << count, total >> pairs onProgress was called with

workerVars == << wk_files, wk_cpus, wk_maxWorkers, wk_disk, wk_pc, wk_workers, wk_loop,
                 wk_inflight, wk_fileQueue, wk_workerResults, wk_timedOut, wk_crashed,
                 wk_attempts, wk_output, wk_rejection , wk_processedCount,
                 wk_progress >>

\* ------------------------------------------------------------------------
\* State of a sequence of calls to utils/cache.js
\* ------------------------------------------------------------------------
VARIABLES
  cs_store,   \* cache path -> entry file (the directory .sweepstacx/cache)
  cs_now,     \* Date.now()
  cs_maxAge,  \* the maxAge the caller passes to getCache
  cs_pc,      \* "set", "damage", "wait", "get", "clear", "end"
  cs_asked,   \* the (operation, path, hash) triple getCache was last called for
  cs_result   \* what that call returned

cacheVars == << cs_store, cs_now, cs_maxAge, cs_pc, cs_asked, cs_result >>

\* ------------------------------------------------------------------------
\* State of the unused-import pass of runScan on one file (lines 72-86)
\* ------------------------------------------------------------------------
VARIABLES
  im_file,    \* file
  im_code,    \* src, the text of the file as a sequence of tokens
  im_pc,      \* "start" or "done"
  im_issues   \* fileIssues

importVars == << im_file, im_code, im_pc, im_issues >>

\* ------------------------------------------------------------------------
\* State of batchProcess(items, processFn, concurrency) (utils/parallel.js)
\* ------------------------------------------------------------------------
VARIABLES
  bp_items,       \* items
  bp_concurrency, \* concurrency
  bp_rejects,     \* the items processFn rejects on
  bp_pc,          \* "loop", "race", "all", "done" or "rejected"
  bp_i,           \* position of the for-of loop in items
  bp_promise,     \* item -> state of its `promise`: "none", "scheduled" (processFn
                  \* not yet called), "running", "fulfilled" or "rejected"
  bp_e,           \* item -> state of its `e`: "none", "pending", "fulfilled", "rejected"
  bp_executing,   \* executing, the items standing for their `e`
  bp_results,     \* results, the items standing for their `promise`
  bp_raced,       \* the `e` handed to the Promise.race that is awaited
  bp_raceState,   \* how that race settled: "pending", "fulfilled" or "rejected"
  bp_peak,        \* the largest number of processFn calls that were running at once
  bp_output,      \* the value the returned promise resolves to
  bp_rejection    \* the error the returned promise rejects with

batchVars == << bp_items, bp_concurrency, bp_rejects, bp_pc, bp_i, bp_promise, bp_e,
                bp_executing, bp_results, bp_raced, bp_raceState, bp_peak, bp_output,
                bp_rejection >>

\* ------------------------------------------------------------------------
\* State of runWatch(opts) (commands/watch.js)
\* ------------------------------------------------------------------------
VARIABLES
  wt_pc,          \* "initial" (the initial scan runs), "watching" or "exited"
  wt_isScanning,  \* isScanning
  wt_scanQueued,  \* scanQueued
  wt_timers,      \* the calls of debouncedScan that wait for their 500 ms timer
  wt_running,     \* the calls of debouncedScan that are in performScan
  wt_events,      \* the change, add and unlink events delivered so far
  wt_unserved,    \* an event was delivered and no scan has started since
  wt_scans,       \* the re-scans started so far
  wt_reports,     \* the reports written so far
  wt_exit,        \* "none", or why the process ended: "sigint" or "error"
  wt_interrupted  \* a scan was running when SIGINT ended the process

watchVars == << wt_pc, wt_isScanning, wt_scanQueued, wt_timers, wt_running, wt_events,
                wt_unserved, wt_scans, wt_reports, wt_exit, wt_interrupted >>

coreVars == << deadVars, scanVars, poolVars, workerVars, cacheVars >>

moreVars == << importVars, batchVars, watchVars >>

vars == << coreVars, moreVars >>

\* ------------------------------------------------------------------------
\* Generic helpers
\* ------------------------------------------------------------------------
ToSet(s) == { s[i] : i \in 1..Len(s) }

Includes(s, x) == \E i \in 1..Len(s) : s[i] = x

Last(s) == s[Len(s)]

\* ------------------------------------------------------------------------
\* node:path as used by dead-files.js
\* ------------------------------------------------------------------------
Dot == <<"", "">>
DotDot == <<"", "", "">>
EmptySeg == <<"">>

\* the value of a failed resolution (JavaScript null); no path has a
\* segment without parts
NullPath == << <<>> >>

RECURSIVE Normalize(_, _)
Normalize(acc, segs) ==
  IF segs = <<>> THEN acc
  ELSE LET s == Head(segs)
           acc2 == IF s = Dot \/ s = EmptySeg THEN acc
                   ELSE IF s = DotDot
                        THEN (IF acc = <<>> THEN <<>> ELSE SubSeq(acc, 1, Len(acc) - 1))
                        ELSE Append(acc, s)
       IN Normalize(acc2, Tail(segs))

\* importPath.startsWith('/')
StartsWithSlash(importPath) ==
  Len(importPath) >= 2 /\ Head(importPath) = EmptySeg

\* importPath.startsWith('.')
StartsWithDot(importPath) ==
  Len(importPath) >= 1 /\ Len(Head(importPath)) >= 2 /\ Head(importPath)[1] = ""

\* path.resolve(from, to) for an absolute `from`
resolve(from, to) ==
  IF StartsWithSlash(to) THEN Normalize(<<>>, to) ELSE Normalize(from, to)

dirname(file) == SubSeq(file, 1, Len(file) - 1)

\* path.extname(p) is a non-empty string
extname(p) ==
  /\ Len(p) >= 1
  /\ LET b == Last(p)
     IN /\ Len(b) >= 2
        /\ b # DotDot
        /\ ~(Len(b) = 2 /\ b[1] = "")

RECURSIVE CommonPrefix(_, _)
CommonPrefix(a, b) ==
  IF a = <<>> \/ b = <<>> \/ Head(a) # Head(b) THEN 0
  ELSE 1 + CommonPrefix(Tail(a), Tail(b))

\* path.relative(root, file) for absolute paths, split on '/'
relative(root, file) ==
  LET k == CommonPrefix(root, file)
  IN [i \in 1..(Len(root) - k) |-> DotDot] \o SubSeq(file, k + 1, Len(file))

\* basePath + '.ext'
AddExt(basePath, e) ==
  IF basePath = <<>> THEN << <<"", e>> >>
  ELSE [basePath EXCEPT ![Len(basePath)] = Append(@, e)]

\* ------------------------------------------------------------------------
\* Import resolution (dead-files.js)
\* ------------------------------------------------------------------------
RECURSIVE FirstIn(_, _)
FirstIn(candidates, allFiles) ==
  IF candidates = <<>> THEN NullPath
  ELSE IF Includes(allFiles, Head(candidates)) THEN Head(candidates)
       ELSE FirstIn(Tail(candidates), allFiles)

\* the candidate list resolveImportPath builds
Candidates(importPath, currentDir) ==
  LET basePath == resolve(currentDir, importPath)
  IN IF extname(importPath)
     THEN << basePath >>
     ELSE << AddExt(basePath, "js"), AddExt(basePath, "mjs"), AddExt(basePath, "cjs"),
             AddExt(basePath, "ts"), AddExt(basePath, "tsx"), AddExt(basePath, "jsx"),
             resolve(basePath, << <<"index", "js">> >>),
             resolve(basePath, << <<"index", "mjs">> >>),
             resolve(basePath, << <<"index", "cjs">> >>),
             resolve(basePath, << <<"index", "ts">> >>) >>

\* a resolver that trusts its first candidate without looking it up
resolveImportPathUnchecked(importPath, currentDir, allFiles) ==
  Head(Candidates(importPath, currentDir))

resolveImportPath(importPath, currentDir, allFiles) ==
  FirstIn(Candidates(importPath, currentDir), allFiles)

\* the specifiers of `code` that are local, resolved; unresolved ones dropped
RECURSIVE extractImports(_, _, _)
extractImports(code, currentFile, allFiles) ==
  IF code = <<>> THEN <<>>
  ELSE LET importPath == Head(code)
           rest == extractImports(Tail(code), currentFile, allFiles)
       IN IF ~StartsWithDot(importPath) /\ ~StartsWithSlash(importPath)
          THEN rest
          ELSE LET resolvedPath == resolveImportPath(importPath, dirname(currentFile), allFiles)
               IN IF resolvedPath # NullPath THEN <<resolvedPath>> \o rest ELSE rest

\* ------------------------------------------------------------------------
\* Entry points (dead-files.js)
\* ------------------------------------------------------------------------
EndsWith(filename, a, b) ==
  /\ Len(filename) >= 3
  /\ filename[Len(filename) - 1] = a
  /\ filename[Len(filename)] = b

IsEntryPoint(file, root) ==
  LET rel == relative(root, file)
      parts == IF rel = <<>> THEN << EmptySeg >> ELSE rel
      filename == Last(parts)
  IN \/ filename = <<"index", "js">>
     \/ filename = <<"index", "mjs">>
     \/ filename = <<"index", "cjs">>
     \/ filename = <<"main", "js">>
     \/ filename = <<"app", "js">>
     \/ filename = <<"server", "js">>
     \/ (Len(parts) >= 2 /\ parts[1] = <<"bin">>)
     \/ Includes(parts, <<"bin">>)
     \/ Includes(parts, <<"cli">>)
     \/ EndsWith(filename, "test", "js")
     \/ EndsWith(filename, "spec", "js")
     \/ EndsWith(filename, "test", "mjs")
     \/ EndsWith(filename, "spec", "mjs")

RECURSIVE MatchingFiles(_, _)
MatchingFiles(fs, root) ==
  IF fs = <<>> THEN <<>>
  ELSE IF IsEntryPoint(Head(fs), root)
       THEN <<Head(fs)>> \o MatchingFiles(Tail(fs), root)
       ELSE MatchingFiles(Tail(fs), root)

\* entry points without the "no entry point found" fallback
findEntryPointsNoFallback(fs, root) == MatchingFiles(fs, root)

findEntryPoints(fs, root) ==
  LET eps == MatchingFiles(fs, root)
  IN IF Len(eps) = 0 THEN fs ELSE eps

\* ------------------------------------------------------------------------
\* The file trees and texts the dead-file analysis is run on
\* ------------------------------------------------------------------------
Root == << <<"r">> >>

IndexJs == Root \o << <<"index", "js">> >>
AJs == Root \o << <<"a", "js">> >>
LibIndexTs == Root \o << <<"lib">>, <<"index", "ts">> >>
LibIndexTsx == Root \o << <<"lib">>, <<"index", "tsx">> >>

\* in discovery order
Universe == << IndexJs, AJs, LibIndexTs, LibIndexTsx >>

SpecLib == << Dot, <<"lib">> >>
SpecUpAJs == << DotDot, <<"a", "js">> >>
SpecIndex == << Dot, <<"index">> >>

Specifiers == << SpecLib, SpecUpAJs, SpecIndex >>

\* the elements of s at the positions in idx, in order
RECURSIVE PickFrom(_, _, _)
PickFrom(s, idx, i) ==
  IF i > Len(s) THEN <<>>
  ELSE IF i \in idx THEN <<s[i]>> \o PickFrom(s, idx, i + 1)
       ELSE PickFrom(s, idx, i + 1)

SubLists(s, max) ==
  { PickFrom(s, idx, 1) : idx \in { x \in SUBSET (1..Len(s)) : Cardinality(x) <= max } }

FileLists == SubLists(Universe, MaxFiles)

\* a package import, skipped by extractImports
SpecNodePath == << <<"node:path">> >>

ImportLists == SubLists(Specifiers, MaxImports) \cup { << SpecNodePath, SpecLib >> }

\* the text of a file that cannot be read
HiddenText == << SpecLib, SpecUpAJs >>

\* ------------------------------------------------------------------------
\* detectDeadFiles
\* ------------------------------------------------------------------------
\* Set.add on an insertion-ordered set
SetAdd(s, x) == IF Includes(s, x) THEN s ELSE Append(s, x)

\* lines 342-348: one edge into both maps
AddEdge(maps, file, importedFile) ==
  LET by == IF importedFile \in DOMAIN maps.by
            THEN maps.by
            ELSE maps.by @@ (importedFile :> <<>>)
  IN [ g |-> [maps.g EXCEPT ![file] = SetAdd(@, importedFile)],
       by |-> [by EXCEPT ![importedFile] = SetAdd(@, file)] ]

RECURSIVE AddEdges(_, _, _)
AddEdges(maps, file, imports) ==
  IF imports = <<>> THEN maps
  ELSE AddEdges(AddEdge(maps, file, Head(imports)), file, Tail(imports))

\* a read that never rejects
ReadNeverFails(file, unreadableFiles) == FALSE

\* readFile(file) rejects
ReadFails(file, unreadableFiles) == file \in unreadableFiles

\* the resolveImportPath calls extractImports makes for one file
ResolveCalls(file, code, allFiles) ==
  { [from |-> file, spec |-> code[i],
     to |-> resolveImportPath(code[i], dirname(file), allFiles)] :
    i \in { j \in 1..Len(code) : StartsWithDot(code[j]) \/ StartsWithSlash(code[j]) } }

\* entry points that are not marked
SeedUsedEmpty(eps) == {}

\* new Set(entryPoints)
SeedUsed(eps) == ToSet(eps)

\* a traversal that forgets the visited check
UnvisitedAlways(usedSet, imported) == TRUE

\* !used.has(imported)
Unvisited(usedSet, imported) == imported \notin usedSet

\* a traversal that marks but does not follow
EnqueueDrop(q, imported) == q

\* queue.push(imported)
Enqueue(q, imported) == Append(q, imported)

Bump(e, f) == [e EXCEPT ![f] = IF @ < 2 THEN @ + 1 ELSE @]

RECURSIVE BumpAll(_, _)
BumpAll(e, fs) == IF fs = <<>> THEN e ELSE BumpAll(Bump(e, Head(fs)), Tail(fs))

\* lines 367-372: the inner loop of one BFS iteration
RECURSIVE Visit(_, _)
Visit(st, imports) ==
  IF imports = <<>> THEN st
  ELSE LET imported == Head(imports)
       IN IF Unvisited(st.used, imported)
          THEN LET q2 == Enqueue(st.queue, imported)
               IN Visit([ used |-> st.used \cup {imported},
                          queue |-> q2,
                          enq |-> IF Len(q2) > Len(st.queue)
                                  THEN Bump(st.enq, imported) ELSE st.enq ],
                        Tail(imports))
          ELSE Visit(st, Tail(imports))

\* "dead" read as "nobody imports it"
DeadListUnimported(fs, usedSet, root) ==
  LET rec[i \in 0..Len(fs)] ==
        IF i = 0 THEN <<>>
        ELSE IF importedBy[fs[i]] = <<>> /\ fs[i] \notin usedSet
             THEN Append(rec[i - 1], relative(root, fs[i]))
             ELSE rec[i - 1]
  IN rec[Len(fs)]

\* lines 376-381
DeadList(fs, usedSet, root) ==
  LET rec[i \in 0..Len(fs)] ==
        IF i = 0 THEN <<>>
        ELSE IF fs[i] \notin usedSet
             THEN Append(rec[i - 1], relative(root, fs[i]))
             ELSE rec[i - 1]
  IN rec[Len(fs)]

\* detectDeadFiles has not been called yet
DeadInit ==
  /\ files = <<>>
  /\ content = <<>>
  /\ unreadable = {}
  /\ dd_pc = "call"
  /\ buildIdx = 1
  /\ importGraph = <<>>
  /\ importedBy = <<>>
  /\ resolved = {}
  /\ entryPoints = <<>>
  /\ used = {}
  /\ queue = <<>>
  /\ enqueued = [f \in ToSet(Universe) |-> 0]
  /\ deadFiles = <<>>

\* the call detectDeadFiles(files, root) on some file list, and the
\* initialisation of both maps (lines 327-334)
DeadCall ==
  /\ dd_pc = "call"
  /\ \E fs \in FileLists :
       /\ files' = fs
       /\ importGraph' = [f \in ToSet(fs) |-> <<>>]
       /\ importedBy' = [f \in ToSet(fs) |-> <<>>]
  /\ dd_pc' = "build"
  /\ UNCHANGED << content, unreadable, buildIdx, resolved, entryPoints, used, queue,
                  enqueued, deadFiles >>
  /\ UNCHANGED << scanVars, poolVars, workerVars, cacheVars, moreVars >>

\* one iteration of the graph-build loop (lines 337-353); readFile yields
\* the text of the file or rejects
DeadBuildFile ==
  /\ dd_pc = "build"
  /\ buildIdx <= Len(files)
  /\ LET file == files[buildIdx]
     IN \E text \in ImportLists, rejects \in BOOLEAN :
          /\ rejects => text = HiddenText
          /\ content' = content @@ (file :> text)
          /\ unreadable' = IF rejects THEN unreadable \cup {file} ELSE unreadable
          /\ LET failed == ReadFails(file, unreadable')
                 imports == IF failed THEN <<>> ELSE extractImports(text, file, files)
                 maps == AddEdges([g |-> importGraph, by |-> importedBy], file, imports)
             IN /\ importGraph' = maps.g
                /\ importedBy' = maps.by
                /\ resolved' = IF failed THEN resolved
                               ELSE resolved \cup ResolveCalls(file, text, files)
  /\ buildIdx' = buildIdx + 1
  /\ UNCHANGED << files, dd_pc, entryPoints, used, queue, enqueued, deadFiles >>
  /\ UNCHANGED << scanVars, poolVars, workerVars, cacheVars, moreVars >>

\* lines 356-362
DeadFindEntryPoints ==
  /\ dd_pc = "build"
  /\ buildIdx > Len(files)
  /\ entryPoints' = findEntryPoints(files, Root)
  /\ used' = SeedUsed(entryPoints')
  /\ queue' = entryPoints'
  /\ enqueued' = BumpAll(enqueued, entryPoints')
  /\ dd_pc' = "bfs"
  /\ UNCHANGED << files, content, unreadable, buildIdx, importGraph, importedBy,
                  resolved, deadFiles >>
  /\ UNCHANGED << scanVars, poolVars, workerVars, cacheVars, moreVars >>

\* one iteration of the while loop (lines 363-373); the queue never holds
\* more than Len(files) entries, the second conjunct only keeps a faulty
\* traversal finite
DeadBfsStep ==
  /\ dd_pc = "bfs"
  /\ Len(queue) > 0
  /\ Len(queue) <= 2 * Len(files)
  /\ LET current == Head(queue)
         imports == IF current \in DOMAIN importGraph THEN importGraph[current] ELSE <<>>
         st == Visit([used |-> used, queue |-> Tail(queue), enq |-> enqueued], imports)
     IN /\ used' = st.used
        /\ queue' = st.queue
        /\ enqueued' = st.enq
  /\ UNCHANGED << files, content, unreadable, dd_pc, buildIdx, importGraph, importedBy,
                  resolved, entryPoints, deadFiles >>
  /\ UNCHANGED << scanVars, poolVars, workerVars, cacheVars, moreVars >>

\* lines 376-383
DeadCollect ==
  /\ dd_pc = "bfs"
  /\ Len(queue) = 0
  /\ deadFiles' = DeadList(files, used, Root)
  /\ dd_pc' = "done"
  /\ UNCHANGED << files, content, unreadable, buildIdx, importGraph, importedBy,
                  resolved, entryPoints, used, queue, enqueued >>
  /\ UNCHANGED << scanVars, poolVars, workerVars, cacheVars, moreVars >>

\* detectDeadFiles is not running
DeadOff ==
  /\ files = <<>>
  /\ content = <<>>
  /\ unreadable = {}
  /\ dd_pc = "off"
  /\ buildIdx = 1
  /\ importGraph = <<>>
  /\ importedBy = <<>>
  /\ resolved = {}
  /\ entryPoints = <<>>
  /\ used = {}
  /\ queue = <<>>
  /\ enqueued = [f \in ToSet(Universe) |-> 0]
  /\ deadFiles = <<>>

\* ------------------------------------------------------------------------
\* The cache store (utils/cache.js) as runScan uses it
\* ------------------------------------------------------------------------
CACHE_VERSION == "1"

DefaultMaxAge == 3600000

\* A string is the sequence of its tokens; ":" , "/" and "." are tokens of
\* their own.
RECURSIVE JoinWith(_, _)
JoinWith(parts, sep) ==
  IF parts = <<>> THEN <<>>
  ELSE IF Len(parts) = 1 THEN << parts[1] >>
  ELSE << parts[1], sep >> \o JoinWith(Tail(parts), sep)

\* the string of a path: "/r/lib/index.ts"
RECURSIVE PathString(_)
PathString(path) ==
  IF path = <<>> THEN <<>>
  ELSE << "/" >> \o JoinWith(Head(path), ".") \o PathString(Tail(path))

\* The text of a scanned file: its tokens, a line break being the token
\* "\n".  Identifiers consist of word characters, every import statement is
\* written on one line.  TextUnused is bad.js of tests/scan.test.js (lines
\* 23-27), TextUsed the same file with a call of join added.
TextUnused ==
  << "//", "unused", "import", "\n",
     "import", "{", "join", "}", "from", "'node:path'", "\n",
     "export", "const", "ok", "=", "1" >>
TextUsed == TextUnused \o << "\n", "join", "(", ")" >>
ScanTexts == { TextUnused, TextUsed }

\* the md5 hex digest of a text (distinct texts of the model have distinct
\* digests); '' when the file cannot be read
Hash(text) ==
  IF text = TextUnused THEN << "5f2b" >>
  ELSE IF text = TextUsed THEN << "c41d" >>
  ELSE << "09ae" >>
NoHash == <<>>

\* the value of an absent cacheKey / absent fileIssues (JavaScript null)
NullKey == <<>>
NullIssues == [isNull |-> TRUE, data |-> <<>>]

\* the operation name runScan passes
OpScan == << "scan" >>

\* a digest that does not depend on the text
getFileHashOfName(filePath, disk, readError) == << "5f2b" >>

getFileHash(filePath, disk, readError) ==
  IF readError[filePath] # "none" THEN NoHash ELSE Hash(disk[filePath])

\* line 105: `${operation}:${filePath}:${hash}`
CacheKey(operation, filePathString, hash) ==
  operation \o << ":" >> \o filePathString \o << ":" >> \o hash

getFileCacheKey(filePath, operation, disk, readError) ==
  CacheKey(operation, PathString(filePath), getFileHash(filePath, disk, readError))

\* lines 12-15: the entry file is named by the md5 digest of the key
\* (distinct keys of the model have distinct digests)
getCachePath(key) == << ".sweepstacx/cache/", "md5" >> \o key \o << ".json" >>

\* An entry file: "json" when it holds what setCache wrote, "garbage" when
\* JSON.parse throws on it, "unreadable" when readFile rejects.
JsonEntry(version, timestamp, data) ==
  [kind |-> "json", version |-> version, timestamp |-> timestamp, data |-> data]
GarbageEntry == [kind |-> "garbage", version |-> "", timestamp |-> 0, data |-> <<>>]
UnreadableEntry == [kind |-> "unreadable", version |-> "", timestamp |-> 0, data |-> <<>>]

\* getCache without its checks: whatever the entry file holds
getCacheUnchecked(store, key, maxAge, now) ==
  LET cachePath == getCachePath(key)
  IN IF cachePath \notin DOMAIN store THEN NullIssues
     ELSE [isNull |-> FALSE, data |-> store[cachePath].data]

\* lines 33-59; readFile and JSON.parse throw into the catch of line 56
getCache(store, key, maxAge, now) ==
  LET cachePath == getCachePath(key)
  IN IF cachePath \notin DOMAIN store THEN NullIssues
     ELSE IF store[cachePath].kind # "json" THEN NullIssues
     ELSE IF store[cachePath].version # CACHE_VERSION THEN NullIssues
     ELSE IF now - store[cachePath].timestamp > maxAge THEN NullIssues
     ELSE [isNull |-> FALSE, data |-> store[cachePath].data]

\* a setCache that never writes
setCacheDropped(store, key, data, now, writable) == store

\* lines 66-81; a failing mkdir or writeFile is swallowed by the catch
setCache(store, key, data, now, writable) ==
  IF ~writable THEN store
  ELSE [k \in DOMAIN store \cup {getCachePath(key)} |->
          IF k = getCachePath(key) THEN JsonEntry(CACHE_VERSION, now, data)
          ELSE store[k]]

\* lines 111-121; a failing rm is swallowed by the catch
clearCache(store, writable) ==
  IF ~writable THEN store ELSE <<>>

\* ------------------------------------------------------------------------
\* runScan (commands/scan.js)
\* ------------------------------------------------------------------------
MaxScanFiles == 2

\* the module specifiers of the texts: the string literals
StringLiterals == { "'node:path'", "'./side.css'", "'./types'" }

\* [A-Za-z_$][\w$]*
IsIdentifier(tok) ==
  tok \notin StringLiterals \cup { "{", "}", ",", "*", "(", ")", "=", "//", "\n" }

Minimum(S) == CHOOSE x \in S : \A y \in S : x <= y

\* ([\s\S]*?)\s+from\s+['"][^'"]+['"]: the first `from` at or after token k
\* that a string literal follows, 0 if there is none
FromAt(code, k) ==
  LET js == { j \in k..(Len(code) - 1) :
                code[j] = "from" /\ code[j + 1] \in StringLiterals }
  IN IF js = {} THEN 0 ELSE Minimum(js)

NotNewline(tok) == tok # "\n"

\* a match of the import regex at the `import` of token k whose clause
\* starts at token c: (?!['"]) and the lazy clause up to `from`
MatchFrom(code, k, c) ==
  LET j == IF c > Len(code) \/ code[c] \in StringLiterals THEN 0 ELSE FromAt(code, c + 1)
  IN IF j = 0
     THEN [found |-> FALSE, index |-> k, clause |-> <<>>, last |-> k]
     ELSE [found |-> TRUE, index |-> k,
           clause |-> SelectSeq(SubSeq(code, c, j - 1), NotNewline), last |-> j + 1]

\* part_022 line 157, part_017 line 815: the TypeScript regex has the
\* optional (?:type\s+) after `import`
MatchAt(code, k, ts) ==
  IF ts /\ k + 1 <= Len(code) /\ code[k + 1] = "type" /\ MatchFrom(code, k, k + 2).found
  THEN MatchFrom(code, k, k + 2)
  ELSE MatchFrom(code, k, k + 1)

\* the matches of re.exec from token k on: ^\s*import at a line start (flags gm)
RECURSIVE ImportMatches(_, _, _)
ImportMatches(code, k, ts) ==
  IF k > Len(code) THEN <<>>
  ELSE IF code[k] = "import" /\ (k = 1 \/ code[k - 1] = "\n") /\ MatchAt(code, k, ts).found
  THEN << MatchAt(code, k, ts) >> \o ImportMatches(code, MatchAt(code, k, ts).last + 1, ts)
  ELSE ImportMatches(code, k + 1, ts)

\* lines 200-209; 0 where the code has -1
topLevelCommaIndex(s) ==
  LET Depth(i) == Cardinality({ k \in 1..(i - 1) : s[k] = "{" })
                    - Cardinality({ k \in 1..(i - 1) : s[k] = "}" })
      commas == { i \in 1..Len(s) : s[i] = "," /\ Depth(i) = 0 }
  IN IF commas = {} THEN 0 ELSE Minimum(commas)

\* line 190: (namedBlock.match(/\{([^}]*)\}/) || [null, ''])[1]
InnerOf(namedBlock) ==
  LET opens == { i \in 1..Len(namedBlock) :
                   /\ namedBlock[i] = "{"
                   /\ \E j \in (i + 1)..Len(namedBlock) : namedBlock[j] = "}" }
  IN IF opens = {} THEN <<>>
     ELSE LET open == Minimum(opens)
              close == Minimum({ j \in (open + 1)..Len(namedBlock) : namedBlock[j] = "}" })
          IN SubSeq(namedBlock, open + 1, close - 1)

\* line 191: inner.split(',')
RECURSIVE SplitCommas(_)
SplitCommas(s) ==
  IF \A i \in 1..Len(s) : s[i] # "," THEN << s >>
  ELSE LET c == Minimum({ i \in 1..Len(s) : s[i] = "," })
       IN << SubSeq(s, 1, c - 1) >> \o SplitCommas(SubSeq(s, c + 1, Len(s)))

\* lines 192-193, part_017 lines 858-870: the local name of one binding
NameOfBinding(raw, ts) ==
  IF ts /\ Len(raw) = 2 /\ raw[1] = "type" /\ IsIdentifier(raw[2]) THEN << raw[2] >>
  ELSE IF Len(raw) = 3 /\ IsIdentifier(raw[1]) /\ raw[2] = "as" /\ IsIdentifier(raw[3])
  THEN << raw[3] >>
  ELSE raw

\* the text with the import statement of tokens index..last cut out
BodyWithout(code, index, last) ==
  SubSeq(code, 1, index - 1) \o << "\n" >> \o SubSeq(code, last + 1, Len(code))

\* lines 211-217, isUsed: a whole-word occurrence of ident outside the
\* import statement
isUsed(code, ident, index, last) ==
  LET body == BodyWithout(code, index, last)
  IN \E i \in 1..(Len(body) - Len(ident) + 1) : SubSeq(body, i, i + Len(ident) - 1) = ident

\* lines 161-196: the names one import statement adds to `unused`
UnusedOfMatch(code, m, ts) ==
  LET clause == m.clause
      IfUnused(name) == IF isUsed(code, name, m.index, m.last) THEN <<>> ELSE << name >>
      firstComma == topLevelCommaIndex(clause)
      defaultName == IF firstComma = 0
                     THEN IF clause[1] = "{" THEN <<>> ELSE clause
                     ELSE SubSeq(clause, 1, firstComma - 1)
      namedBlock == IF firstComma = 0
                    THEN IF clause[1] = "{" THEN clause ELSE <<>>
                    ELSE SubSeq(clause, firstComma + 1, Len(clause))
      raws == LET NonEmpty(raw) == raw # <<>>
              IN SelectSeq(SplitCommas(InnerOf(namedBlock)), NonEmpty)
      RECURSIVE Named(_)
      Named(i) == IF i > Len(raws) THEN <<>>
                  ELSE IfUnused(NameOfBinding(raws[i], ts)) \o Named(i + 1)
  IN IF Len(clause) = 3 /\ clause[1] = "*" /\ clause[2] = "as" /\ IsIdentifier(clause[3])
     THEN IfUnused(<< clause[3] >>)
     ELSE (IF defaultName # <<>> /\ defaultName[1] # "{" THEN IfUnused(defaultName) ELSE <<>>)
          \o Named(1)

RECURSIVE UnusedOfMatches(_, _, _)
UnusedOfMatches(code, ms, ts) ==
  IF ms = <<>> THEN <<>>
  ELSE UnusedOfMatch(code, Head(ms), ts) \o UnusedOfMatches(code, Tail(ms), ts)

\* part_022 lines 155-198
detectUnusedImports(code) == UnusedOfMatches(code, ImportMatches(code, 1, FALSE), FALSE)

\* part_017 lines 811-879
detectUnusedTypeScriptImports(code) ==
  UnusedOfMatches(code, ImportMatches(code, 1, TRUE), TRUE)

\* file.endsWith('.ts') || file.endsWith('.tsx')
IsTypeScript(file) ==
  LET name == Last(file)
  IN Len(name) >= 2 /\ Last(name) \in {"ts", "tsx"}

\* lines 77-86
FileIssues(file, src) ==
  LET unusedSyms == IF IsTypeScript(file) THEN detectUnusedTypeScriptImports(src)
                    ELSE detectUnusedImports(src)
  IN [i \in 1..Len(unusedSyms) |->
        [ type |-> "unused_import",
          file |-> relative(Root, file),
          symbol |-> unusedSyms[i],
          language |-> IF IsTypeScript(file) THEN "typescript" ELSE "javascript" ]]

\* the message handleError prints before process.exit(1)
handleError(code, context) ==
  IF code = "ENOENT" THEN << "File or directory not found during", context >>
  ELSE IF code = "EACCES" THEN << "Permission denied during", context >>
  ELSE IF code = "EISDIR" THEN << "Expected a file but found a directory during", context >>
  ELSE << "An unexpected error occurred during", context >>

\* the cache directory after a scan, `age` ago and by the build `version`,
\* of a tree with the texts `disk`
WarmStore(fs, disk, readError, now, age, version) ==
  LET readable == { f \in ToSet(fs) : readError[f] = "none" }
      pathOf(f) == getCachePath(getFileCacheKey(f, OpScan, disk, readError))
      fileOf(k) == CHOOSE f \in readable : pathOf(f) = k
  IN [k \in { pathOf(f) : f \in readable } |->
        JsonEntry(version, now - age, FileIssues(fileOf(k), disk[fileOf(k)]))]

\* a cache directory whose entry files all became e
Damaged(store, e) == [k \in DOMAIN store |-> e]

\* the tree before an edit of every file
Flipped(disk) ==
  [f \in DOMAIN disk |-> IF disk[f] = TextUnused THEN TextUsed ELSE TextUnused]

\* the cache directories a scan can find, and whether it can write there
CacheStates(fs, disk, readError, now) ==
  LET warm == WarmStore(fs, disk, readError, now, 0, CACHE_VERSION)
  IN { [store |-> <<>>, writable |-> TRUE],
       [store |-> <<>>, writable |-> FALSE],
       [store |-> warm, writable |-> TRUE],
       [store |-> WarmStore(fs, disk, readError, now, DefaultMaxAge + 1, CACHE_VERSION),
        writable |-> TRUE],
       [store |-> WarmStore(fs, disk, readError, now, 0, "0"), writable |-> TRUE],
       [store |-> WarmStore(fs, Flipped(disk), readError, now, 0, CACHE_VERSION),
        writable |-> TRUE],
       [store |-> Damaged(warm, GarbageEntry), writable |-> TRUE],
       [store |-> Damaged(warm, GarbageEntry), writable |-> FALSE],
       [store |-> Damaged(warm, UnreadableEntry), writable |-> FALSE] }

\* cli.js lines 25-32 with commander: the option '--no-cache' declares the
\* property `cache`, true unless the flag is given; the parsed options have
\* no property `noCache`
ParseScanOptions(argv) ==
  [cache |-> IF Includes(argv, "--no-cache") THEN "false" ELSE "true",
   noCache |-> "undefined"]

\* the ways runScan is called: from the command line (cli.js line 33), or
\* with { noCache: true } (the benchmark, commands/benchmark.js line 34)
ScanCalls ==
  { [argv |-> a, opts |-> ParseScanOptions(a)] :
      a \in { << "scan" >>, << "scan", "--no-cache" >> } }
  \cup { [argv |-> <<>>, opts |-> [cache |-> "undefined", noCache |-> "true"]] }

\* the values JavaScript takes for true in a condition
Truthy(v) == v = "true"

ScanInit ==
  /\ sc_files \in SubLists(Universe, MaxScanFiles)
  /\ sc_disk \in [ToSet(sc_files) -> ScanTexts]
  /\ sc_readError \in [ToSet(sc_files) -> {"none", "ENOENT", "EACCES"}]
  /\ \E call \in ScanCalls :
       /\ sc_argv = call.argv
       /\ sc_noCache = Truthy(call.opts.noCache)
  /\ sc_now = DefaultMaxAge + 1
  /\ \E c \in CacheStates(sc_files, sc_disk, sc_readError, sc_now) :
       /\ sc_cache = c.store
       /\ sc_cacheWritable = c.writable
  /\ sc_pc = "start"
  /\ sc_idx = 1
  /\ sc_key = NullKey
  /\ sc_fileIssues = NullIssues
  /\ sc_issues = <<>>
  /\ sc_warnings = <<>>
  /\ sc_deadFiles = <<>>
  /\ sc_report = <<>>
  /\ sc_stderr = <<>>
  /\ sc_exitCode = -1
  /\ sc_run = 1
  /\ sc_calls = {}
  /\ sc_hits = {}
  /\ sc_modified = {}
  /\ sc_startCache = sc_cache
  /\ sc_firstNow = 0
  /\ sc_firstReport = <<>>

\* lines 35-64: the glob result is in, the empty-scan warning
ScanGlob ==
  /\ sc_pc = "start"
  /\ sc_warnings' = IF Len(sc_files) = 0
                    THEN << [text |-> "No files matched scan patterns", about |-> <<>>] >>
                    ELSE <<>>
  /\ sc_issues' = <<>>
  /\ sc_idx' = 1
  /\ sc_pc' = IF Len(sc_files) = 0 THEN "dead" ELSE "key"
  /\ UNCHANGED << sc_files, sc_disk, sc_readError, sc_noCache, sc_cache, sc_now,
                  sc_key, sc_fileIssues, sc_deadFiles, sc_report, sc_stderr, sc_exitCode,
                  sc_calls, sc_hits, scanRun >>
  /\ UNCHANGED << deadVars, poolVars, workerVars, cacheVars, moreVars >>

\* line 68
ScanKey ==
  /\ sc_pc = "key"
  /\ sc_key' = IF ~sc_noCache
               THEN getFileCacheKey(sc_files[sc_idx], OpScan, sc_disk, sc_readError)
               ELSE NullKey
  /\ sc_pc' = "lookup"
  /\ UNCHANGED << sc_files, sc_disk, sc_readError, sc_noCache, sc_cache, sc_now, sc_idx,
                  sc_fileIssues, sc_issues, sc_warnings, sc_deadFiles, sc_report,
                  sc_stderr, sc_exitCode, sc_calls, sc_hits, scanRun >>
  /\ UNCHANGED << deadVars, poolVars, workerVars, cacheVars, moreVars >>

\* a lookup that is taken for a hit whatever it returned
IsMissNever(fileIssues) == FALSE

\* line 71: if (!fileIssues)
IsMiss(fileIssues) == fileIssues.isNull

\* lines 69-71
ScanLookup ==
  /\ sc_pc = "lookup"
  /\ sc_fileIssues' = IF ~sc_noCache
                      THEN getCache(sc_cache, sc_key, DefaultMaxAge, sc_now)
                      ELSE NullIssues
  /\ sc_hits' = IF IsMiss(sc_fileIssues') THEN sc_hits ELSE sc_hits \cup { sc_files[sc_idx] }
  /\ sc_pc' = IF IsMiss(sc_fileIssues') THEN "read" ELSE "push"
  /\ UNCHANGED << sc_files, sc_disk, sc_readError, sc_noCache, sc_cache, sc_now, sc_idx,
                  sc_key, sc_issues, sc_warnings, sc_deadFiles, sc_report, sc_stderr,
                  sc_exitCode, sc_calls, scanRun >>
  /\ UNCHANGED << deadVars, poolVars, workerVars, cacheVars, moreVars >>

\* lines 72-86; a rejected readFile leaves the loop for the catch block
\* (lines 146-149): handleError prints and calls process.exit(1)
ScanRead ==
  /\ sc_pc = "read"
  /\ LET file == sc_files[sc_idx]
     IN IF sc_readError[file] # "none"
        THEN /\ sc_stderr' = Append(sc_stderr, handleError(sc_readError[file], "scan"))
             /\ sc_exitCode' = 1
             /\ sc_pc' = "exit"
             /\ UNCHANGED << sc_fileIssues, sc_calls >>
        ELSE /\ sc_fileIssues' = [isNull |-> FALSE, data |-> FileIssues(file, sc_disk[file])]
             /\ sc_calls' = sc_calls \cup {file}
             /\ sc_pc' = IF ~sc_noCache /\ sc_key # NullKey THEN "store" ELSE "push"
             /\ UNCHANGED << sc_stderr, sc_exitCode >>
  /\ UNCHANGED << sc_files, sc_disk, sc_readError, sc_noCache, sc_cache, sc_now, sc_idx,
                  sc_key, sc_issues, sc_warnings, sc_deadFiles, sc_report, sc_hits,
                  scanRun >>
  /\ UNCHANGED << deadVars, poolVars, workerVars, cacheVars, moreVars >>

\* lines 89-91
ScanStore ==
  /\ sc_pc = "store"
  /\ sc_cache' = setCache(sc_cache, sc_key, sc_fileIssues.data, sc_now, sc_cacheWritable)
  /\ sc_pc' = "push"
  /\ UNCHANGED << sc_files, sc_disk, sc_readError, sc_noCache, sc_now, sc_idx, sc_key,
                  sc_fileIssues, sc_issues, sc_warnings, sc_deadFiles, sc_report,
                  sc_stderr, sc_exitCode, sc_calls, sc_hits, scanRun >>
  /\ UNCHANGED << deadVars, poolVars, workerVars, cacheVars, moreVars >>

\* a loop left after its first file
AfterFileLeave(idx, fs) == "dead"

\* lines 66 and 96-101: the for-of loop goes on to the next file, and is
\* left for the dead-file pass after the last one
AfterFile(idx, fs) == IF idx < Len(fs) THEN "key" ELSE "dead"

\* lines 94-96
ScanPush ==
  /\ sc_pc = "push"
  /\ sc_issues' = sc_issues \o sc_fileIssues.data
  /\ sc_idx' = sc_idx + 1
  /\ sc_pc' = AfterFile(sc_idx, sc_files)
  /\ UNCHANGED << sc_files, sc_disk, sc_readError, sc_noCache, sc_cache, sc_now, sc_key,
                  sc_fileIssues, sc_warnings, sc_deadFiles, sc_report, sc_stderr,
                  sc_exitCode, sc_calls, sc_hits, scanRun >>
  /\ UNCHANGED << deadVars, poolVars, workerVars, cacheVars, moreVars >>

\* lines 101-110: detectDeadFiles over the same list; the scanned texts
\* import packages only, so only the entry points are reachable
ScanDeadFiles ==
  /\ sc_pc = "dead"
  /\ sc_deadFiles' = DeadList(sc_files, SeedUsed(findEntryPoints(sc_files, Root)), Root)
  /\ sc_issues' = sc_issues \o
        [i \in 1..Len(sc_deadFiles') |->
           [ type |-> "dead_file", file |-> sc_deadFiles'[i],
             message |-> "File is never imported by any other file" ]]
  /\ sc_pc' = "stale"
  /\ UNCHANGED << sc_files, sc_disk, sc_readError, sc_noCache, sc_cache, sc_now, sc_idx,
                  sc_key, sc_fileIssues, sc_warnings, sc_report, sc_stderr, sc_exitCode,
                  sc_calls, sc_hits, scanRun >>
  /\ UNCHANGED << deadVars, poolVars, workerVars, cacheVars, moreVars >>

\* lines 113-145: no package.json under the root, so no stale dependency;
\* stats and report
ScanReport ==
  /\ sc_pc = "stale"
  /\ LET IsUnused(i) == i.type = "unused_import"
     IN sc_report' = << [ warnings |-> sc_warnings,
                          stats |-> [ files_scanned |-> Len(sc_files),
                                      unused_imports |-> Len(SelectSeq(sc_issues, IsUnused)),
                                      duplicate_blocks |-> 0,
                                      dead_files |-> Len(sc_deadFiles),
                                      stale_dependencies |-> 0 ],
                          issues |-> sc_issues ] >>
  /\ sc_pc' = "done"
  /\ UNCHANGED << sc_files, sc_disk, sc_readError, sc_noCache, sc_cache, sc_now, sc_idx,
                  sc_key, sc_fileIssues, sc_issues, sc_warnings, sc_deadFiles, sc_stderr,
                  sc_exitCode, sc_calls, sc_hits, scanRun >>
  /\ UNCHANGED << deadVars, poolVars, workerVars, cacheVars, moreVars >>

\* the time that passes between two scans: none, the maximal age of an
\* entry, more than that
Delays == { 0, DefaultMaxAge, DefaultMaxAge + 1 }

Reverse(s) == [i \in 1..Len(s) |-> s[Len(s) + 1 - i]]

\* the tree after an edit of the files of `edited`
Edit(disk, edited) ==
  [f \in DOMAIN disk |->
     IF f \notin edited THEN disk[f]
     ELSE IF disk[f] = TextUnused THEN TextUsed ELSE TextUnused]

\* runScan is called a second time (lines 13-64): time has passed, at most
\* one file was edited in between, and the glob enumerates the same files
\* in the same or in the opposite order
ScanAgain ==
  /\ sc_pc = "done"
  /\ sc_run = 1
  /\ \E delay \in Delays, edited \in { e \in SUBSET ToSet(sc_files) : Cardinality(e) <= 1 },
        order \in { sc_files, Reverse(sc_files) } :
       /\ sc_now' = sc_now + delay
       /\ sc_disk' = Edit(sc_disk, edited)
       /\ sc_modified' = edited
       /\ sc_files' = order
  /\ sc_run' = 2
  /\ sc_firstNow' = sc_now
  /\ sc_firstReport' = sc_report
  /\ sc_startCache' = sc_cache
  /\ sc_pc' = "start"
  /\ sc_idx' = 1
  /\ sc_key' = NullKey
  /\ sc_fileIssues' = NullIssues
  /\ sc_issues' = <<>>
  /\ sc_warnings' = <<>>
  /\ sc_deadFiles' = <<>>
  /\ sc_report' = <<>>
  /\ sc_calls' = {}
  /\ sc_hits' = {}
  /\ UNCHANGED << sc_readError, sc_noCache, sc_cache, sc_cacheWritable, sc_stderr,
                  sc_exitCode, sc_argv >>
  /\ UNCHANGED << deadVars, poolVars, workerVars, cacheVars, moreVars >>

\* Another process saves a file of the tree while the per-file loop of the
\* first scan (lines 66-96) is at one of its awaits
ScanTouch ==
  /\ sc_run = 1
  /\ sc_pc \in {"key", "lookup", "read", "store", "push"}
  /\ sc_modified = {}
  /\ \E f \in ToSet(sc_files) :
       /\ sc_disk' = Edit(sc_disk, {f})
       /\ sc_modified' = {f}
  /\ UNCHANGED << sc_files, sc_readError, sc_noCache, sc_cache, sc_now, sc_pc, sc_idx,
                  sc_key, sc_fileIssues, sc_issues, sc_warnings, sc_deadFiles, sc_report,
                  sc_stderr, sc_exitCode, sc_calls, sc_hits, sc_cacheWritable, sc_run,
                  sc_startCache, sc_firstNow, sc_firstReport, sc_argv >>
  /\ UNCHANGED << deadVars, poolVars, workerVars, cacheVars, moreVars >>

\* runScan is not running
ScanOff ==
  /\ sc_files = <<>>
  /\ sc_disk = <<>>
  /\ sc_readError = <<>>
  /\ sc_noCache = FALSE
  /\ sc_cache = <<>>
  /\ sc_now = 0
  /\ sc_pc = "off"
  /\ sc_idx = 1
  /\ sc_key = NullKey
  /\ sc_fileIssues = NullIssues
  /\ sc_issues = <<>>
  /\ sc_warnings = <<>>
  /\ sc_deadFiles = <<>>
  /\ sc_report = <<>>
  /\ sc_stderr = <<>>
  /\ sc_exitCode = -1
  /\ sc_cacheWritable = TRUE
  /\ sc_run = 1
  /\ sc_calls = {}
  /\ sc_hits = {}
  /\ sc_modified = {}
  /\ sc_startCache = <<>>
  /\ sc_firstNow = 0
  /\ sc_firstReport = <<>>
  /\ sc_argv = <<>>

\* ------------------------------------------------------------------------
\* The unused-import pass on one file (commands/scan.js lines 72-86)
\* ------------------------------------------------------------------------
\* import statements per text, and names used in the rest of a text
MaxStatements == 2
MaxUses == 1

\* import statements of JavaScript: named, default, namespace, default with
\* named and aliased, default with namespace, side effect only
JsForms ==
  << << "import", "{", "join", "}", "from", "'node:path'" >>,
     << "import", "path", "from", "'node:path'" >>,
     << "import", "*", "as", "ns", "from", "'node:path'" >>,
     << "import", "path", ",", "{", "join", "as", "j", ",", "sep", "}", "from", "'node:path'" >>,
     << "import", "path", ",", "*", "as", "ns", "from", "'node:path'" >>,
     << "import", "'./side.css'" >> >>

\* and of TypeScript: type-only imports
TsForms ==
  JsForms \o
  << << "import", "type", "{", "Foo", "}", "from", "'./types'" >>,
     << "import", "{", "type", "Foo", ",", "join", "}", "from", "'./types'" >> >>

UsedNames == << "join", "path", "ns", "j", "sep", "Foo" >>

\* the statements one per line, then a call of each used name
RECURSIVE LinesOf(_)
LinesOf(statements) ==
  IF statements = <<>> THEN <<>>
  ELSE Head(statements) \o << "\n" >> \o LinesOf(Tail(statements))

RECURSIVE CallsOf(_)
CallsOf(names) ==
  IF names = <<>> THEN <<>>
  ELSE << Head(names), "(", ")", "\n" >> \o CallsOf(Tail(names))

ImportTexts(forms) ==
  { LinesOf(st) \o CallsOf(us) :
      st \in SubLists(forms, MaxStatements), us \in SubLists(UsedNames, MaxUses) }
  \cup { TextUnused, TextUsed }

ImportsInit ==
  /\ im_file \in { AJs, LibIndexTs }
  /\ im_code \in ImportTexts(IF IsTypeScript(im_file) THEN TsForms ELSE JsForms)
  /\ im_pc = "start"
  /\ im_issues = <<>>

\* lines 72-86: the file is read and the detector of its language is mapped
\* to issue records
ImportsScanFile ==
  /\ im_pc = "start"
  /\ im_issues' = FileIssues(im_file, im_code)
  /\ im_pc' = "done"
  /\ UNCHANGED << im_file, im_code >>
  /\ UNCHANGED << coreVars, batchVars, watchVars >>

\* no file is in the unused-import pass
ImportsOff ==
  /\ im_file = <<>>
  /\ im_code = <<>>
  /\ im_pc = "off"
  /\ im_issues = <<>>


\* ------------------------------------------------------------------------
\* processInParallel (utils/parallel.js)
\* ------------------------------------------------------------------------
MaxPoolFiles == 4
MaxPoolWorkers == 2

PoolFileNames == << "X", "Y", "Z", "W", "V" >>

\* what processFn returns for a file it does not throw on
processFn(file) == [file |-> file, value |-> "ok"]

\* error.message of what processFn throws
ErrorMessage(file) == << "cannot process", file >>

\* Math.ceil(a / b)
Ceil(a, b) == (a + b - 1) \div b

Min(a, b) == IF a < b THEN a ELSE b

\* lines 32-35
ChunksOf(fs, chunkSize) ==
  [k \in 1..Ceil(Len(fs), chunkSize) |->
     SubSeq(fs, (k - 1) * chunkSize + 1, Min(k * chunkSize, Len(fs)))]

RECURSIVE Flat(_)
Flat(ss) == IF ss = <<>> THEN <<>> ELSE Head(ss) \o Flat(Tail(ss))

PoolInit ==
  /\ \E n \in 0..MaxPoolFiles : pl_files = SubSeq(PoolFileNames, 1, n)
  /\ pl_maxWorkers \in 1..MaxPoolWorkers
  /\ pl_throws \in SUBSET ToSet(pl_files)
  /\ pl_pc = "start"
  /\ pl_i = 1
  /\ pl_results = <<>>
  /\ pl_chunks = <<>>
  /\ pl_pos = <<>>
  /\ pl_chunkResults = <<>>
  /\ pl_output = <<>>
  /\ pl_rejection = <<>>

\* lines 17-40: the path is chosen, the chunks are cut and every
\* processChunk call is started
PoolStart ==
  /\ pl_pc = "start"
  /\ IF Len(pl_files) < pl_maxWorkers * 2
     THEN /\ pl_pc' = "seq"
          /\ UNCHANGED << pl_chunks, pl_pos, pl_chunkResults >>
     ELSE /\ pl_chunks' = ChunksOf(pl_files, Ceil(Len(pl_files), pl_maxWorkers))
          /\ pl_pos' = [k \in DOMAIN pl_chunks' |-> 1]
          /\ pl_chunkResults' = [k \in DOMAIN pl_chunks' |-> <<>>]
          /\ pl_pc' = "chunks"
  /\ UNCHANGED << pl_files, pl_maxWorkers, pl_throws, pl_i, pl_results, pl_output,
                  pl_rejection >>
  /\ UNCHANGED << deadVars, scanVars, workerVars, cacheVars, moreVars >>

\* lines 25-27: one iteration of the sequential loop; a throw of processFn
\* rejects the promise processInParallel returned
PoolSeqStep ==
  /\ pl_pc = "seq"
  /\ pl_i <= Len(pl_files)
  /\ LET file == pl_files[pl_i]
     IN IF file \in pl_throws
        THEN /\ pl_rejection' = ErrorMessage(file)
             /\ pl_pc' = "rejected"
             /\ UNCHANGED << pl_results, pl_i >>
        ELSE /\ pl_results' = Append(pl_results, processFn(file))
             /\ pl_i' = pl_i + 1
             /\ UNCHANGED << pl_rejection, pl_pc >>
  /\ UNCHANGED << pl_files, pl_maxWorkers, pl_throws, pl_chunks, pl_pos,
                  pl_chunkResults, pl_output >>
  /\ UNCHANGED << deadVars, scanVars, workerVars, cacheVars, moreVars >>

\* line 28
PoolSeqReturn ==
  /\ pl_pc = "seq"
  /\ pl_i > Len(pl_files)
  /\ pl_output' = pl_results
  /\ pl_pc' = "done"
  /\ UNCHANGED << pl_files, pl_maxWorkers, pl_throws, pl_i, pl_results, pl_chunks,
                  pl_pos, pl_chunkResults, pl_rejection >>
  /\ UNCHANGED << deadVars, scanVars, workerVars, cacheVars, moreVars >>

\* lines 53-60: one iteration of the loop of processChunk for chunk k
PoolChunkStep(k) ==
  /\ pl_pc = "chunks"
  /\ pl_pos[k] <= Len(pl_chunks[k])
  /\ LET file == pl_chunks[k][pl_pos[k]]
         result == IF file \in pl_throws
                   THEN [file |-> file, error |-> ErrorMessage(file)]
                   ELSE processFn(file)
     IN pl_chunkResults' = [pl_chunkResults EXCEPT ![k] = Append(@, result)]
  /\ pl_pos' = [pl_pos EXCEPT ![k] = @ + 1]
  /\ UNCHANGED << pl_files, pl_maxWorkers, pl_throws, pl_pc, pl_i, pl_results,
                  pl_chunks, pl_output, pl_rejection >>
  /\ UNCHANGED << deadVars, scanVars, workerVars, cacheVars, moreVars >>

\* lines 42-43: Promise.all settles when every chunk has returned
PoolJoin ==
  /\ pl_pc = "chunks"
  /\ \A k \in DOMAIN pl_chunks : pl_pos[k] > Len(pl_chunks[k])
  /\ pl_output' = Flat(pl_chunkResults)
  /\ pl_pc' = "done"
  /\ UNCHANGED << pl_files, pl_maxWorkers, pl_throws, pl_i, pl_results, pl_chunks,
                  pl_pos, pl_chunkResults, pl_rejection >>
  /\ UNCHANGED << deadVars, scanVars, workerVars, cacheVars, moreVars >>

\* processInParallel is not running
PoolOff ==
  /\ pl_files = <<>>
  /\ pl_maxWorkers = 1
  /\ pl_throws = {}
  /\ pl_pc = "off"
  /\ pl_i = 1
  /\ pl_results = <<>>
  /\ pl_chunks = <<>>
  /\ pl_pos = <<>>
  /\ pl_chunkResults = <<>>
  /\ pl_output = <<>>
  /\ pl_rejection = <<>>

\* ------------------------------------------------------------------------
\* processFilesInParallel (utils/parallel-processor.js) and the worker
\* thread it drives (workers/scan-worker.js)
\* ------------------------------------------------------------------------
\* files beyond the small-input threshold
MaxExtraFiles == 1

\* line 30: files.length < 10
SMALL_INPUT == 10

\* the values of cpus().length
CpuCounts == {1, 2, 3}

WorkerFileNames == << "m01.js", "m02.js", "m03.js", "m04.js", "m05.js", "m06.js", "m07.js",
                      "m08.js", "m09.js", "m10.js", "m11.js", "m12.js", "m13.js" >>

\* The text of a file as the worker's analyzers see it: whether readFile
\* yields it, and its maximal nesting depth.  These texts have no imports
\* and nothing the other analyzers of processFile report.
ShallowText == [readable |-> TRUE, nesting |-> 1]
DeepText == [readable |-> TRUE, nesting |-> 5]
UnreadableText == [readable |-> FALSE, nesting |-> 0]

\* the trees: every file shallow, or the first one deep or unreadable
WorkerDisks(fs) ==
  IF fs = <<>> THEN { <<>> }
  ELSE { [f \in ToSet(fs) |-> IF f = fs[1] THEN t ELSE ShallowText] :
           t \in {ShallowText, DeepText, UnreadableText} }

Max(a, b) == IF a > b THEN a ELSE b

\* line 25: Math.max(1, cpus().length - 1)
DefaultMaxWorkers(cpuCount) == Max(1, cpuCount - 1)

\* analyzers/complexity.js, the nesting check
analyzeComplexity(code, filePath) ==
  IF code.nesting > 4
  THEN << [type |-> "deep_nesting", severity |-> "warning", file |-> filePath] >>
  ELSE <<>>

\* analyzers/code-smells.js, detectCodeSmells(files): an async function of a
\* file list.  Called with (code, filePath) at scan-worker.js line 33 it
\* returns at once, and what it returns is a promise, which is not iterable.
detectCodeSmells(code, filePath) == [iterable |-> FALSE, issues |-> <<>>]

\* scan-worker.js lines 21-74, processFile: the analyzers run one after the
\* other inside one try block; spreading the promise of line 33 into
\* issues.push (line 34) throws a TypeError, and the catch of line 67 answers
\* with the error alone
processFile(filePath, disk) ==
  IF ~disk[filePath].readable
  THEN [file |-> filePath, issues |-> <<>>, error |-> << "ENOENT", filePath >>,
        success |-> FALSE]
  ELSE IF ~detectCodeSmells(disk[filePath], filePath).iterable
  THEN [file |-> filePath, issues |-> <<>>,
        error |-> << "TypeError", "codeSmells is not iterable" >>,
        success |-> FALSE]
  ELSE [file |-> filePath,
        issues |-> detectCodeSmells(disk[filePath], filePath).issues
                     \o analyzeComplexity(disk[filePath], filePath),
        error |-> <<>>, success |-> TRUE]

\* lines 127-145: the placeholder of the small-input branch
processSequentially(fs) ==
  [i \in 1..Len(fs) |-> [file |-> fs[i], issues |-> <<>>, error |-> <<>>, success |-> TRUE]]

\* one worker per file, whatever maxWorkers is
WorkerCountPerFile(maxWorkers, n) == n

\* line 34
WorkerCount(maxWorkers, n) == Min(maxWorkers, n)

\* the queue is left as it is
shiftNothing(fileQueue) == fileQueue

\* line 53: what fileQueue.shift() leaves in the queue
shift(fileQueue) == Tail(fileQueue)

\* the file worker w was posted and has not settled
HeldBy(w) == { p[2] : p \in { q \in wk_inflight : q[1] = w } }

WorkerInit ==
  /\ \E n \in 0..(SMALL_INPUT + MaxExtraFiles) : wk_files = SubSeq(WorkerFileNames, 1, n)
  /\ wk_cpus \in CpuCounts
  /\ wk_maxWorkers = DefaultMaxWorkers(wk_cpus)
  /\ wk_disk \in WorkerDisks(wk_files)
  /\ wk_pc = "start"
  /\ wk_workers = <<>>
  /\ wk_loop = <<>>
  /\ wk_inflight = {}
  /\ wk_fileQueue = <<>>
  /\ wk_workerResults = <<>>
  /\ wk_timedOut = {}
  /\ wk_crashed = {}
  /\ wk_attempts = [f \in ToSet(wk_files) |-> 0]
  /\ wk_output = <<>>
  /\ wk_rejection = <<>>
  /\ wk_processedCount = 0
  /\ wk_progress = <<>>

\* lines 24-49: the small-input branch returns the placeholder; otherwise
\* the workers are created, all are ready, and every dispatch loop starts
WorkerStart ==
  /\ wk_pc = "start"
  /\ IF Len(wk_files) < SMALL_INPUT
     THEN /\ wk_output' = processSequentially(wk_files)
          /\ wk_progress' = [i \in 1..Len(wk_files) |-> << i, Len(wk_files) >>]
          /\ wk_pc' = "done"
          /\ UNCHANGED << wk_workers, wk_loop, wk_fileQueue, wk_workerResults >>
     ELSE /\ LET workerCount == WorkerCount(wk_maxWorkers, Len(wk_files))
             IN /\ wk_workers' = [w \in 1..workerCount |-> "live"]
                /\ wk_loop' = [w \in 1..workerCount |-> "idle"]
                /\ wk_workerResults' = [w \in 1..workerCount |-> <<>>]
          /\ wk_fileQueue' = wk_files
          /\ wk_pc' = "pool"
          /\ UNCHANGED << wk_output, wk_progress >>
  /\ UNCHANGED << wk_files, wk_cpus, wk_maxWorkers, wk_disk, wk_inflight, wk_timedOut,
                  wk_crashed, wk_attempts, wk_rejection, wk_processedCount >>
  /\ UNCHANGED << deadVars, scanVars, poolVars, cacheVars, moreVars >>

\* lines 52-56 and 117-120: the loop of worker w takes the next file and
\* posts it to its worker
WorkerDispatch(w) ==
  /\ wk_loop[w] = "idle"
  /\ wk_fileQueue # <<>>
  /\ LET file == Head(wk_fileQueue)
     IN /\ wk_inflight' = wk_inflight \cup { << w, file >> }
        /\ wk_attempts' = [wk_attempts EXCEPT ![file] = @ + 1]
  /\ wk_fileQueue' = shift(wk_fileQueue)
  /\ wk_loop' = [wk_loop EXCEPT ![w] = "busy"]
  /\ UNCHANGED << wk_files, wk_cpus, wk_maxWorkers, wk_disk, wk_pc, wk_workers,
                  wk_workerResults, wk_timedOut, wk_crashed, wk_output, wk_rejection,
                  wk_processedCount, wk_progress >>
  /\ UNCHANGED << deadVars, scanVars, poolVars, cacheVars, moreVars >>

\* lines 105-110 and 57-62: the worker answers with the result of
\* processFile; the loop counts the file and reports the progress
WorkerResult(w) ==
  /\ wk_loop[w] = "busy"
  /\ \E file \in HeldBy(w) :
       /\ wk_workerResults' = [wk_workerResults EXCEPT ![w] = Append(@, processFile(file, wk_disk))]
       /\ wk_inflight' = wk_inflight \ { << w, file >> }
  /\ wk_loop' = [wk_loop EXCEPT ![w] = "idle"]
  /\ wk_processedCount' = wk_processedCount + 1
  /\ wk_progress' = Append(wk_progress, << wk_processedCount + 1, Len(wk_files) >>)
  /\ UNCHANGED << wk_files, wk_cpus, wk_maxWorkers, wk_disk, wk_pc, wk_workers,
                  wk_fileQueue, wk_timedOut, wk_crashed, wk_attempts, wk_output,
                  wk_rejection >>
  /\ UNCHANGED << deadVars, scanVars, poolVars, cacheVars, moreVars >>

\* the first loop that rejects rejects Promise.all (line 69) and with it
\* the promise processFilesInParallel returned
RejectWith(error) ==
  IF wk_pc = "pool"
  THEN wk_pc' = "rejected" /\ wk_rejection' = error
  ELSE UNCHANGED << wk_pc, wk_rejection >>

\* lines 101-103: the worker has not answered for 30 s; the timer rejects
\* the promise the loop of worker w awaits, which ends that loop.  The
\* worker thread keeps the file.
WorkerTimeout(w) ==
  /\ wk_loop[w] = "busy"
  /\ \E file \in HeldBy(w) :
       /\ wk_timedOut' = wk_timedOut \cup {file}
       /\ RejectWith(<< "Worker timeout processing", file >>)
  /\ wk_loop' = [wk_loop EXCEPT ![w] = "rejected"]
  /\ UNCHANGED << wk_files, wk_cpus, wk_maxWorkers, wk_disk, wk_workers, wk_inflight,
                  wk_fileQueue, wk_workerResults, wk_crashed, wk_attempts, wk_output,
                  wk_processedCount, wk_progress >>
  /\ UNCHANGED << deadVars, scanVars, poolVars, cacheVars, moreVars >>

\* lines 112-115: the worker emits 'error' while it holds a file; the
\* promise the loop awaits is rejected with that error
WorkerCrash(w) ==
  /\ wk_loop[w] = "busy"
  /\ \E file \in HeldBy(w) :
       /\ wk_crashed' = wk_crashed \cup {file}
       /\ wk_inflight' = wk_inflight \ { << w, file >> }
       /\ RejectWith(<< "worker error", file >>)
  /\ wk_workers' = [wk_workers EXCEPT ![w] = "crashed"]
  /\ wk_loop' = [wk_loop EXCEPT ![w] = "rejected"]
  /\ UNCHANGED << wk_files, wk_cpus, wk_maxWorkers, wk_disk, wk_fileQueue,
                  wk_workerResults, wk_timedOut, wk_attempts, wk_output,
                  wk_processedCount, wk_progress >>
  /\ UNCHANGED << deadVars, scanVars, poolVars, cacheVars, moreVars >>

\* lines 52 and 65: the queue is empty, the loop of worker w returns
WorkerLoopEnd(w) ==
  /\ wk_loop[w] = "idle"
  /\ wk_fileQueue = <<>>
  /\ wk_loop' = [wk_loop EXCEPT ![w] = "returned"]
  /\ UNCHANGED << wk_files, wk_cpus, wk_maxWorkers, wk_disk, wk_pc, wk_workers,
                  wk_inflight, wk_fileQueue, wk_workerResults, wk_timedOut, wk_crashed,
                  wk_attempts, wk_output, wk_rejection, wk_processedCount, wk_progress >>
  /\ UNCHANGED << deadVars, scanVars, poolVars, cacheVars, moreVars >>

\* lines 69-75: every loop has returned; the workers are terminated and
\* the results flattened in worker order
WorkerJoin ==
  /\ wk_pc = "pool"
  /\ \A w \in DOMAIN wk_loop : wk_loop[w] = "returned"
  /\ wk_workers' = [w \in DOMAIN wk_workers |-> "terminated"]
  /\ wk_output' = Flat(wk_workerResults)
  /\ wk_pc' = "done"
  /\ UNCHANGED << wk_files, wk_cpus, wk_maxWorkers, wk_disk, wk_loop, wk_inflight,
                  wk_fileQueue, wk_workerResults, wk_timedOut, wk_crashed, wk_attempts,
                  wk_rejection, wk_processedCount, wk_progress >>
  /\ UNCHANGED << deadVars, scanVars, poolVars, cacheVars, moreVars >>

\* processFilesInParallel is not running
WorkerOff ==
  /\ wk_files = <<>>
  /\ wk_cpus = 1
  /\ wk_maxWorkers = 1
  /\ wk_disk = <<>>
  /\ wk_pc = "off"
  /\ wk_workers = <<>>
  /\ wk_loop = <<>>
  /\ wk_inflight = {}
  /\ wk_fileQueue = <<>>
  /\ wk_workerResults = <<>>
  /\ wk_timedOut = {}
  /\ wk_crashed = {}
  /\ wk_attempts = <<>>
  /\ wk_output = <<>>
  /\ wk_rejection = <<>>
  /\ wk_processedCount = 0
  /\ wk_progress = <<>>

\* ------------------------------------------------------------------------
\* A sequence of calls to utils/cache.js: entries are written, one may be
\* damaged or come from another build, time passes, a lookup, a clear
\* ------------------------------------------------------------------------
MaxEntries == 2

\* operation names and file paths callers of getFileCacheKey pass, as
\* strings; both may contain ':'
KeyOperations == { << "scan" >>, << "scan", ":", "src" >> }
KeyPaths == { << "src", ":", "a.js" >>, << "a.js" >> }
KeyHashes == { NoHash, << "5f2b" >> }

KeyTriples == KeyOperations \X KeyPaths \X KeyHashes

KeyOf(t) == CacheKey(t[1], t[2], t[3])

\* the data a caller caches for a triple
PayloadFor(t) == << [computedFor |-> t] >>

\* the maxAge a caller passes: the default, or 1 ms
MaxAges == { DefaultMaxAge, 1 }

WaitTimes == { 0, 1, 2, DefaultMaxAge, DefaultMaxAge + 1 }

CacheInit ==
  /\ cs_store = <<>>
  /\ cs_now = 0
  /\ cs_maxAge \in MaxAges
  /\ cs_pc = "set"
  /\ cs_asked = <<>>
  /\ cs_result = NullIssues

\* setCache(getFileCacheKey(path, operation), data)
CacheSet ==
  /\ cs_pc = "set"
  /\ Cardinality(DOMAIN cs_store) < MaxEntries
  /\ \E t \in KeyTriples, writable \in BOOLEAN :
       cs_store' = setCache(cs_store, KeyOf(t), PayloadFor(t), cs_now, writable)
  /\ UNCHANGED << cs_now, cs_maxAge, cs_pc, cs_asked, cs_result >>
  /\ UNCHANGED << deadVars, scanVars, poolVars, workerVars, moreVars >>

\* what can happen to the directory between two runs: nothing, or one
\* entry file is truncated, made unreadable, or is one another build wrote
CacheDamage ==
  /\ cs_pc = "set"
  /\ \/ UNCHANGED cs_store
     \/ \E k \in DOMAIN cs_store :
          \E e \in { GarbageEntry, UnreadableEntry,
                     JsonEntry("0", cs_store[k].timestamp, cs_store[k].data) } :
             cs_store' = [cs_store EXCEPT ![k] = e]
  /\ cs_pc' = "wait"
  /\ UNCHANGED << cs_now, cs_maxAge, cs_asked, cs_result >>
  /\ UNCHANGED << deadVars, scanVars, poolVars, workerVars, moreVars >>

CacheWait ==
  /\ cs_pc = "wait"
  /\ \E d \in WaitTimes : cs_now' = cs_now + d
  /\ cs_pc' = "get"
  /\ UNCHANGED << cs_store, cs_maxAge, cs_asked, cs_result >>
  /\ UNCHANGED << deadVars, scanVars, poolVars, workerVars, moreVars >>

\* getCache(getFileCacheKey(path, operation), maxAge)
CacheGet ==
  /\ cs_pc = "get"
  /\ \E t \in KeyTriples :
       /\ cs_asked' = t
       /\ cs_result' = getCache(cs_store, KeyOf(t), cs_maxAge, cs_now)
  /\ cs_pc' = "clear"
  /\ UNCHANGED << cs_store, cs_now, cs_maxAge >>
  /\ UNCHANGED << deadVars, scanVars, poolVars, workerVars, moreVars >>

\* clearCache()
CacheClear ==
  /\ cs_pc = "clear"
  /\ \E writable \in BOOLEAN : cs_store' = clearCache(cs_store, writable)
  /\ cs_pc' = "end"
  /\ UNCHANGED << cs_now, cs_maxAge, cs_asked, cs_result >>
  /\ UNCHANGED << deadVars, scanVars, poolVars, workerVars, moreVars >>

\* utils/cache.js is not in use
CacheOff ==
  /\ cs_store = <<>>
  /\ cs_now = 0
  /\ cs_maxAge = DefaultMaxAge
  /\ cs_pc = "off"
  /\ cs_asked = <<>>
  /\ cs_result = NullIssues

\* ------------------------------------------------------------------------
\* batchProcess (utils/parallel.js lines 71-90)
\* ------------------------------------------------------------------------
MaxBatchItems == 3
MaxConcurrency == 3

BatchInit ==
  /\ \E n \in 0..MaxBatchItems : bp_items = SubSeq(PoolFileNames, 1, n)
  /\ bp_concurrency \in 1..MaxConcurrency
  /\ bp_rejects \in SUBSET ToSet(bp_items)
  /\ bp_pc = "loop"
  /\ bp_i = 1
  /\ bp_promise = [x \in ToSet(bp_items) |-> "none"]
  /\ bp_e = [x \in ToSet(bp_items) |-> "none"]
  /\ bp_executing = <<>>
  /\ bp_results = <<>>
  /\ bp_raced = {}
  /\ bp_raceState = "pending"
  /\ bp_peak = 0
  /\ bp_output = <<>>
  /\ bp_rejection = <<>>

Running == { x \in ToSet(bp_items) : bp_promise[x] = "running" }

\* a loop that never waits for a free slot
MustWaitNever(executingLength, concurrency) == FALSE

\* line 81: if (executing.length >= concurrency)
MustWait(executingLength, concurrency) == executingLength >= concurrency

\* how Promise.race over the `e` of `raced` stands: settled like the first
\* of them that has settled
RaceOf(raced, e) ==
  IF \E x \in raced : e[x] = "rejected" THEN "rejected"
  ELSE IF \E x \in raced : e[x] = "fulfilled" THEN "fulfilled"
  ELSE "pending"

\* lines 75-84: one turn of the loop up to its await, or up to the next turn
BatchLoop ==
  /\ bp_pc = "loop"
  /\ bp_i <= Len(bp_items)
  /\ LET item == bp_items[bp_i]
         limited == bp_concurrency <= Len(bp_items)
         executing == IF limited THEN Append(bp_executing, item) ELSE bp_executing
         waits == limited /\ MustWait(Len(executing), bp_concurrency)
     IN /\ bp_promise' = [bp_promise EXCEPT ![item] = "scheduled"]
        /\ bp_results' = Append(bp_results, item)
        /\ bp_e' = IF limited THEN [bp_e EXCEPT ![item] = "pending"] ELSE bp_e
        /\ bp_executing' = executing
        /\ bp_pc' = IF waits THEN "race" ELSE "loop"
        /\ bp_raced' = IF waits THEN ToSet(executing) ELSE bp_raced
        /\ bp_raceState' = IF waits THEN RaceOf(ToSet(executing), bp_e') ELSE bp_raceState
  /\ bp_i' = bp_i + 1
  /\ UNCHANGED << bp_items, bp_concurrency, bp_rejects, bp_peak, bp_output, bp_rejection >>
  /\ UNCHANGED << coreVars, importVars, watchVars >>

\* line 76: the callback of Promise.resolve().then runs and calls processFn
BatchInvoke(item) ==
  /\ bp_promise[item] = "scheduled"
  /\ bp_promise' = [bp_promise EXCEPT ![item] = "running"]
  /\ bp_peak' = Max(bp_peak, Cardinality(Running) + 1)
  /\ UNCHANGED << bp_items, bp_concurrency, bp_rejects, bp_pc, bp_i, bp_e, bp_executing,
                  bp_results, bp_raced, bp_raceState, bp_output, bp_rejection >>
  /\ UNCHANGED << coreVars, importVars, watchVars >>

\* the promise processFn returned settles
BatchSettle(item) ==
  /\ bp_promise[item] = "running"
  /\ bp_promise' = [bp_promise EXCEPT ![item] =
                      IF item \in bp_rejects THEN "rejected" ELSE "fulfilled"]
  /\ UNCHANGED << bp_items, bp_concurrency, bp_rejects, bp_pc, bp_i, bp_e, bp_executing,
                  bp_results, bp_raced, bp_raceState, bp_peak, bp_output, bp_rejection >>
  /\ UNCHANGED << coreVars, importVars, watchVars >>

\* line 80: the reaction of promise.then: on fulfilment `e` is spliced out
\* of executing and fulfils; a rejection passes to `e`, which stays in
\* executing
BatchThen(item) ==
  /\ bp_e[item] = "pending"
  /\ bp_promise[item] \in {"fulfilled", "rejected"}
  /\ bp_e' = [bp_e EXCEPT ![item] = bp_promise[item]]
  /\ bp_executing' = IF bp_promise[item] = "fulfilled"
                     THEN LET Other(x) == x # item IN SelectSeq(bp_executing, Other)
                     ELSE bp_executing
  /\ bp_raceState' = IF bp_pc = "race" /\ bp_raceState = "pending" /\ item \in bp_raced
                     THEN bp_promise[item] ELSE bp_raceState
  /\ UNCHANGED << bp_items, bp_concurrency, bp_rejects, bp_pc, bp_i, bp_promise,
                  bp_results, bp_raced, bp_peak, bp_output, bp_rejection >>
  /\ UNCHANGED << coreVars, importVars, watchVars >>

\* line 82: the awaited race has settled; a rejection is thrown out of
\* batchProcess
BatchResume ==
  /\ bp_pc = "race"
  /\ bp_raceState # "pending"
  /\ IF bp_raceState = "fulfilled"
     THEN bp_pc' = "loop" /\ UNCHANGED bp_rejection
     ELSE /\ bp_pc' = "rejected"
          /\ \E x \in bp_raced :
               bp_e[x] = "rejected" /\ bp_rejection' = ErrorMessage(x)
  /\ bp_raceState' = "pending"
  /\ bp_raced' = {}
  /\ UNCHANGED << bp_items, bp_concurrency, bp_rejects, bp_i, bp_promise, bp_e,
                  bp_executing, bp_results, bp_peak, bp_output >>
  /\ UNCHANGED << coreVars, importVars, watchVars >>

\* line 87: the loop is over, Promise.all(results) is returned
BatchReturn ==
  /\ bp_pc = "loop"
  /\ bp_i > Len(bp_items)
  /\ bp_pc' = "all"
  /\ UNCHANGED << bp_items, bp_concurrency, bp_rejects, bp_i, bp_promise, bp_e,
                  bp_executing, bp_results, bp_raced, bp_raceState, bp_peak, bp_output,
                  bp_rejection >>
  /\ UNCHANGED << coreVars, importVars, watchVars >>

\* Promise.all(results): fulfilled with the values in the order of results
\* once every promise is, rejected as soon as one of them is
BatchAll ==
  /\ bp_pc = "all"
  /\ \/ /\ \A x \in ToSet(bp_items) : bp_promise[x] = "fulfilled"
        /\ bp_output' = [k \in 1..Len(bp_results) |-> processFn(bp_results[k])]
        /\ bp_pc' = "done"
        /\ UNCHANGED bp_rejection
     \/ /\ \E x \in ToSet(bp_items) :
             bp_promise[x] = "rejected" /\ bp_rejection' = ErrorMessage(x)
        /\ bp_pc' = "rejected"
        /\ UNCHANGED bp_output
  /\ UNCHANGED << bp_items, bp_concurrency, bp_rejects, bp_i, bp_promise, bp_e,
                  bp_executing, bp_results, bp_raced, bp_raceState, bp_peak >>
  /\ UNCHANGED << coreVars, importVars, watchVars >>

\* batchProcess is not running
BatchOff ==
  /\ bp_items = <<>>
  /\ bp_concurrency = 1
  /\ bp_rejects = {}
  /\ bp_pc = "off"
  /\ bp_i = 1
  /\ bp_promise = <<>>
  /\ bp_e = <<>>
  /\ bp_executing = <<>>
  /\ bp_results = <<>>
  /\ bp_raced = {}
  /\ bp_raceState = "pending"
  /\ bp_peak = 0
  /\ bp_output = <<>>
  /\ bp_rejection = <<>>

\* ------------------------------------------------------------------------
\* Watch mode (commands/watch.js)
\* ------------------------------------------------------------------------
\* events the watcher delivers in one run
MaxEvents == 4

\* How a call of runScan ends: it returns after it wrote the report, or its
\* catch block calls handleError, which ends in process.exit(1)
\* (commands/scan.js lines 146-149, utils/errors.js line 107).  runScan
\* catches everything, so it never rejects.
ScanEndings == { "returned", "exit" }

WatchInit ==
  /\ wt_pc = "initial"
  /\ wt_isScanning = FALSE
  /\ wt_scanQueued = FALSE
  /\ wt_timers = 0
  /\ wt_running = 0
  /\ wt_events = 0
  /\ wt_unserved = FALSE
  /\ wt_scans = 0
  /\ wt_reports = <<>>
  /\ wt_exit = "none"
  /\ wt_interrupted = FALSE

\* lines 19-68: the initial scan is over, the watcher and the SIGINT
\* handler are installed
WatchInitialScan ==
  /\ wt_pc = "initial"
  /\ \E ending \in ScanEndings :
       IF ending = "returned"
       THEN /\ wt_reports' = Append(wt_reports, "complete")
            /\ wt_pc' = "watching"
            /\ UNCHANGED wt_exit
       ELSE /\ wt_pc' = "exited"
            /\ wt_exit' = "error"
            /\ UNCHANGED wt_reports
  /\ UNCHANGED << wt_isScanning, wt_scanQueued, wt_timers, wt_running, wt_events,
                  wt_unserved, wt_scans, wt_interrupted >>
  /\ UNCHANGED << coreVars, importVars, batchVars >>

\* a call that goes on although a scan is under way
GuardOpen(isScanning) == FALSE

\* line 86: if (isScanning)
Guard(isScanning) == isScanning

\* lines 85-91: debouncedScan up to its first await
EnterDebouncedScan ==
  IF Guard(wt_isScanning)
  THEN /\ wt_scanQueued' = TRUE
       /\ UNCHANGED << wt_isScanning, wt_timers >>
  ELSE /\ wt_isScanning' = TRUE
       /\ wt_timers' = wt_timers + 1
       /\ UNCHANGED wt_scanQueued

\* lines 44-57: a change, add or unlink event; its handler calls
\* debouncedScan
WatchEvent ==
  /\ wt_pc = "watching"
  /\ wt_events < MaxEvents
  /\ wt_events' = wt_events + 1
  /\ wt_unserved' = TRUE
  /\ EnterDebouncedScan
  /\ UNCHANGED << wt_pc, wt_running, wt_scans, wt_reports, wt_exit, wt_interrupted >>
  /\ UNCHANGED << coreVars, importVars, batchVars >>

\* lines 94-97: the 500 ms timer of a call fires and performScan is called
WatchTimer ==
  /\ wt_pc = "watching"
  /\ wt_timers > 0
  /\ wt_timers' = wt_timers - 1
  /\ wt_running' = wt_running + 1
  /\ wt_scans' = wt_scans + 1
  /\ wt_unserved' = FALSE
  /\ UNCHANGED << wt_pc, wt_isScanning, wt_scanQueued, wt_events, wt_reports, wt_exit,
                  wt_interrupted >>
  /\ UNCHANGED << coreVars, importVars, batchVars >>

\* lines 97-105: performScan is over; isScanning is cleared and a queued
\* scan is started by the recursive call.  When runScan ended in
\* process.exit(1) nothing of this runs.
WatchScanEnd ==
  /\ wt_pc = "watching"
  /\ wt_running > 0
  /\ \E ending \in ScanEndings :
       IF ending = "returned"
       THEN /\ wt_running' = wt_running - 1
            /\ wt_reports' = Append(wt_reports, "complete")
            /\ IF wt_scanQueued
               THEN /\ wt_scanQueued' = FALSE
                    /\ wt_isScanning' = TRUE
                    /\ wt_timers' = wt_timers + 1
               ELSE /\ wt_isScanning' = FALSE
                    /\ UNCHANGED << wt_scanQueued, wt_timers >>
            /\ UNCHANGED << wt_pc, wt_exit >>
       ELSE /\ wt_pc' = "exited"
            /\ wt_exit' = "error"
            /\ UNCHANGED << wt_running, wt_reports, wt_scanQueued, wt_isScanning,
                            wt_timers >>
  /\ UNCHANGED << wt_events, wt_unserved, wt_scans, wt_interrupted >>
  /\ UNCHANGED << coreVars, importVars, batchVars >>

\* lines 64-68: Ctrl+C; the handler closes the watcher and calls
\* process.exit(0), whatever is under way
WatchSigint ==
  /\ wt_pc = "watching"
  /\ wt_pc' = "exited"
  /\ wt_exit' = "sigint"
  /\ wt_interrupted' = (wt_running > 0)
  /\ UNCHANGED << wt_isScanning, wt_scanQueued, wt_timers, wt_running, wt_events,
                  wt_unserved, wt_scans, wt_reports >>
  /\ UNCHANGED << coreVars, importVars, batchVars >>

\* watch mode is not running
WatchOff ==
  /\ wt_pc = "off"
  /\ wt_isScanning = FALSE
  /\ wt_scanQueued = FALSE
  /\ wt_timers = 0
  /\ wt_running = 0
  /\ wt_events = 0
  /\ wt_unserved = FALSE
  /\ wt_scans = 0
  /\ wt_reports = <<>>
  /\ wt_exit = "none"
  /\ wt_interrupted = FALSE

MoreOff == ImportsOff /\ BatchOff /\ WatchOff

\* ------------------------------------------------------------------------
\* Specifications
\* ------------------------------------------------------------------------
DeadSpecInit == DeadInit /\ ScanOff /\ PoolOff /\ WorkerOff /\ CacheOff /\ MoreOff

DeadNext ==
  \/ DeadCall
  \/ DeadBuildFile
  \/ DeadFindEntryPoints
  \/ DeadBfsStep
  \/ DeadCollect

DeadSpec == DeadSpecInit /\ [][DeadNext]_vars

\* the traversal is a sequential loop: it keeps running until it returns
DeadFairSpec == DeadSpec /\ WF_vars(DeadNext)

ScanSpecInit == ScanInit /\ DeadOff /\ PoolOff /\ WorkerOff /\ CacheOff /\ MoreOff

ScanNext ==
  \/ ScanGlob
  \/ ScanKey
  \/ ScanLookup
  \/ ScanRead
  \/ ScanStore
  \/ ScanPush
  \/ ScanDeadFiles
  \/ ScanReport

ScanSpec == ScanSpecInit /\ [][ScanNext]_vars

\* two scans of one tree, with the cache in use and every file readable
RescanSpecInit ==
  /\ ScanSpecInit
  /\ ~sc_noCache
  /\ \A f \in ToSet(sc_files) : sc_readError[f] = "none"

RescanNext == ScanNext \/ ScanAgain

CoreOff == DeadOff /\ ScanOff /\ PoolOff /\ WorkerOff /\ CacheOff

ImportsSpecInit == ImportsInit /\ CoreOff /\ BatchOff /\ WatchOff

BatchSpecInit == BatchInit /\ CoreOff /\ ImportsOff /\ WatchOff

WatchSpecInit == WatchInit /\ CoreOff /\ ImportsOff /\ BatchOff

WatchNext ==
  \/ WatchInitialScan
  \/ WatchEvent
  \/ WatchTimer
  \/ WatchScanEnd
  \/ WatchSigint

WatchSpec == WatchSpecInit /\ [][WatchNext]_vars

\* a timer that was set fires, and a scan that was started ends
WatchFairSpec ==
  /\ WatchSpec
  /\ WF_vars(WatchInitialScan)
  /\ WF_vars(WatchTimer)
  /\ WF_vars(WatchScanEnd)

BatchNext ==
  \/ BatchLoop
  \/ \E item \in ToSet(bp_items) : BatchInvoke(item)
  \/ \E item \in ToSet(bp_items) : BatchSettle(item)
  \/ \E item \in ToSet(bp_items) : BatchThen(item)
  \/ BatchResume
  \/ BatchReturn
  \/ BatchAll

BatchSpec == BatchSpecInit /\ [][BatchNext]_vars

ImportsNext == ImportsScanFile

ImportsSpec == ImportsSpecInit /\ [][ImportsNext]_vars

\* one scan of a tree that another process writes to
RaceSpecInit == ScanSpecInit

RaceNext == ScanNext \/ ScanTouch

RaceSpec == RaceSpecInit /\ [][RaceNext]_vars

RescanSpec == RescanSpecInit /\ [][RescanNext]_vars

CacheSpecInit == CacheInit /\ DeadOff /\ ScanOff /\ PoolOff /\ WorkerOff /\ MoreOff

CacheNext ==
  \/ CacheSet
  \/ CacheDamage
  \/ CacheWait
  \/ CacheGet
  \/ CacheClear

CacheSpec == CacheSpecInit /\ [][CacheNext]_vars

PoolSpecInit == PoolInit /\ DeadOff /\ ScanOff /\ WorkerOff /\ CacheOff /\ MoreOff

PoolNext ==
  \/ PoolStart
  \/ PoolSeqStep
  \/ PoolSeqReturn
  \/ (\E k \in DOMAIN pl_chunks : PoolChunkStep(k))
  \/ PoolJoin

PoolSpec == PoolSpecInit /\ [][PoolNext]_vars

WorkerSpecInit == WorkerInit /\ DeadOff /\ ScanOff /\ PoolOff /\ CacheOff /\ MoreOff

WorkerNext ==
  \/ WorkerStart
  \/ (\E w \in DOMAIN wk_loop : WorkerDispatch(w))
  \/ (\E w \in DOMAIN wk_loop : WorkerResult(w))
  \/ (\E w \in DOMAIN wk_loop : WorkerTimeout(w))
  \/ (\E w \in DOMAIN wk_loop : WorkerCrash(w))
  \/ (\E w \in DOMAIN wk_loop : WorkerLoopEnd(w))
  \/ WorkerJoin

WorkerSpec == WorkerSpecInit /\ [][WorkerNext]_vars

\* both pools: a run of processInParallel or a run of processFilesInParallel
ParallelSpecInit ==
  /\ DeadOff
  /\ ScanOff
  /\ CacheOff
  /\ MoreOff
  /\ \/ PoolInit /\ WorkerOff
     \/ WorkerInit /\ PoolOff

ParallelNext == PoolNext \/ WorkerNext

ParallelSpec == ParallelSpecInit /\ [][ParallelNext]_vars

\* ------------------------------------------------------------------------
\* Reference notions the claims are stated with
\* ------------------------------------------------------------------------
Successors(g, S) ==
  UNION { IF f \in DOMAIN g THEN ToSet(g[f]) ELSE {} : f \in S }

\* least set containing S and closed under the forward edges of g
RECURSIVE Closure(_, _)
Closure(g, S) ==
  LET N == S \cup Successors(g, S)
  IN IF N = S THEN S ELSE Closure(g, N)

Reachable == Closure(importGraph, ToSet(entryPoints))

FileSet == ToSet(files)

Rel(f) == relative(Root, f)

IndexOf(f) == CHOOSE i \in 1..Len(files) : files[i] = f

\* ------------------------------------------------------------------------
\* C1: detectDeadFiles returns exactly the discovered files that are not in
\* the transitive closure of the entry points under forward import edges,
\* each once, as paths relative to the root.
\* ------------------------------------------------------------------------
Thm_C1_DeadIsUnreachable ==
  dd_pc = "done" =>
    /\ ToSet(deadFiles) = { Rel(f) : f \in FileSet \ Reachable }
    /\ Len(deadFiles) = Cardinality(FileSet \ Reachable)

\* a run that reports a dead file and leaves out a file reached over an edge
Wit_C1 ==
  /\ dd_pc = "done"
  /\ deadFiles # <<>>
  /\ \E f \in Reachable : f \notin ToSet(entryPoints)

\* ------------------------------------------------------------------------
\* C2: when no discovered file matches an entry-point heuristic the entry
\* point set is the whole file list and no file is reported dead.
\* ------------------------------------------------------------------------
NoHeuristicMatch == \A f \in FileSet : ~IsEntryPoint(f, Root)

Thm_C2_FallbackNoDead ==
  NoHeuristicMatch =>
    /\ dd_pc \in {"bfs", "done"} => entryPoints = files
    /\ dd_pc = "done" => deadFiles = <<>>

\* a finished run without entry-point match, with an edge and with a file
\* nobody imports
Wit_C2 ==
  /\ dd_pc = "done"
  /\ NoHeuristicMatch
  /\ \E f \in FileSet : importGraph[f] # <<>>
  /\ \E f \in FileSet : importedBy[f] = <<>>

\* ------------------------------------------------------------------------
\* C3: two files that import each other, are not entry points and are not
\* imported by any file reachable from an entry point are both reported dead.
\* ------------------------------------------------------------------------
IsolatedCycle(a, b) ==
  /\ a # b
  /\ Includes(importGraph[a], b)
  /\ Includes(importGraph[b], a)
  /\ a \notin ToSet(entryPoints)
  /\ b \notin ToSet(entryPoints)
  /\ \A g \in Reachable : g \in DOMAIN importGraph =>
        ~Includes(importGraph[g], a) /\ ~Includes(importGraph[g], b)

Thm_C3_CycleDead ==
  dd_pc = "done" =>
    \A a, b \in FileSet :
      IsolatedCycle(a, b) => Includes(deadFiles, Rel(a)) /\ Includes(deadFiles, Rel(b))

Wit_C3 ==
  /\ dd_pc = "done"
  /\ \E a, b \in FileSet : IsolatedCycle(a, b)

\* ------------------------------------------------------------------------
\* C4: the breadth-first traversal terminates with an empty queue on every
\* import graph, cyclic or self-importing, and puts no file in the queue
\* more than once.
\* ------------------------------------------------------------------------
Thm_C4_BfsTerminates ==
  /\ <>(dd_pc = "done" /\ queue = <<>>)
  /\ [](\A f \in DOMAIN enqueued : enqueued[f] <= 1)

\* a finished traversal that went through a file importing itself and
\* through a two-file cycle
Wit_C4 ==
  /\ dd_pc = "done"
  /\ \E f \in used : Includes(importGraph[f], f)
  /\ \E a, b \in used : a # b /\ Includes(importGraph[a], b) /\ Includes(importGraph[b], a)

\* ------------------------------------------------------------------------
\* C5: an entry point is never in the dead-file result.
\* ------------------------------------------------------------------------
Thm_C5_EntryNeverDead ==
  dd_pc = "done" => \A e \in ToSet(entryPoints) : ~Includes(deadFiles, Rel(e))

\* an entry point chosen by the heuristic that nobody imports, next to a
\* dead file
Wit_C5 ==
  /\ dd_pc = "done"
  /\ deadFiles # <<>>
  /\ \E e \in ToSet(entryPoints) : importedBy[e] = <<>>

\* ------------------------------------------------------------------------
\* C6: keys of importGraph, keys of importedBy and all edge targets are
\* discovered files, during the build and after it.
\* ------------------------------------------------------------------------
Thm_C6_NodesAreFiles ==
  /\ DOMAIN importGraph \subseteq FileSet
  /\ DOMAIN importedBy \subseteq FileSet
  /\ \A f \in DOMAIN importGraph : ToSet(importGraph[f]) \subseteq FileSet
  /\ \A f \in DOMAIN importedBy : ToSet(importedBy[f]) \subseteq FileSet

\* a build that added an edge and dropped a specifier that resolves to
\* nothing in the list
Wit_C6 ==
  /\ \E f \in FileSet : importGraph[f] # <<>>
  /\ \E r \in resolved : r.to = NullPath

\* ------------------------------------------------------------------------
\* C7: a specifier without extension resolves to the first of base.js,
\* .mjs, .cjs, .ts, .tsx, .jsx, base/index.js, .mjs, .cjs, .ts, .tsx, .jsx
\* that is in the file list, and to nothing only if none of the twelve is.
\* ------------------------------------------------------------------------
TwelveCandidates(importPath, currentDir) ==
  LET basePath == resolve(currentDir, importPath)
      exts == << "js", "mjs", "cjs", "ts", "tsx", "jsx" >>
  IN [i \in 1..6 |-> AddExt(basePath, exts[i])]
     \o [i \in 1..6 |-> Append(basePath, << "index", exts[i] >>)]

Cex_C7_TwelveCandidates ==
  \A r \in resolved :
    ~extname(r.spec) =>
       r.to = FirstIn(TwelveCandidates(r.spec, dirname(r.from)), files)

\* ------------------------------------------------------------------------
\* C8: a file whose read fails has no outgoing edges, the build goes on
\* with the files after it, and the file is reported dead exactly when it
\* is not reachable from an entry point (entry points included).
\* ------------------------------------------------------------------------
Thm_C8_UnreadableStays ==
  /\ \A f \in unreadable : importGraph[f] = <<>>
  /\ dd_pc = "done" =>
       /\ \A f \in unreadable : Includes(deadFiles, Rel(f)) <=> f \notin Reachable
       /\ \A g \in FileSet \ unreadable :
            ToSet(importGraph[g]) = ToSet(extractImports(content[g], g, files))

\* an unreadable file reported dead, and a file after it in the list whose
\* imports went into the graph
Wit_C8 ==
  /\ dd_pc = "done"
  /\ \E f \in unreadable :
       /\ Includes(deadFiles, Rel(f))
       /\ \E g \in FileSet \ unreadable :
            IndexOf(g) > IndexOf(f) /\ importGraph[g] # <<>>

\* ------------------------------------------------------------------------
\* C9: in runScan an error while reading or analysing one file becomes a
\* warning, the file contributes no issues, the remaining files are
\* scanned and the report is written; no per-file error ends the scan.
\* ------------------------------------------------------------------------
Cex_C9_FileErrorIsWarning ==
  sc_pc \in {"done", "exit"} =>
    /\ sc_pc = "done"
    /\ sc_exitCode = -1
    /\ Len(sc_report) = 1
    /\ \A f \in ToSet(sc_files) :
         sc_readError[f] # "none" =>
           /\ \E i \in 1..Len(sc_report[1].warnings) : sc_report[1].warnings[i].about = f
           /\ \A i \in 1..Len(sc_report[1].issues) :
                sc_report[1].issues[i].type = "unused_import" =>
                  sc_report[1].issues[i].file # relative(Root, f)

\* ------------------------------------------------------------------------
\* C10: in one run of the pool, when processing file X throws, the run
\* still completes, every other file has the result it has when X does not
\* fail, and the output holds an error entry naming X; on the sequential
\* path and on the chunked path, for every file count and maxWorkers.
\* ------------------------------------------------------------------------
Cex_C10_FaultIsolation ==
  pl_pc \in {"done", "rejected"} =>
    /\ pl_pc = "done"
    /\ \A f \in ToSet(pl_files) :
         IF f \in pl_throws
         THEN \E i \in 1..Len(pl_output) :
                pl_output[i] = [file |-> f, error |-> ErrorMessage(f)]
         ELSE Includes(pl_output, processFn(f))

\* ------------------------------------------------------------------------
\* Reference notions for the worker pool
\* ------------------------------------------------------------------------
AllLoopsEnded ==
  /\ wk_loop # <<>>
  /\ \A w \in DOMAIN wk_loop : wk_loop[w] \in {"returned", "rejected"}

LiveWorkers == { w \in DOMAIN wk_workers : wk_workers[w] = "live" }

HasResult(output, file, result) ==
  \E j \in 1..Len(output) : output[j].file = file /\ output[j] = result

\* ------------------------------------------------------------------------
\* C11: when a worker does not answer for a file within 30 s, only that
\* file is failed: processFilesInParallel does not reject, the files still
\* queued are dispatched, and the results of the other files are returned.
\* ------------------------------------------------------------------------
Cex_C11_TimeoutIsFileLevel ==
  (wk_timedOut # {} /\ wk_crashed = {}) =>
     /\ wk_pc # "rejected"
     /\ AllLoopsEnded => wk_fileQueue = <<>>
     /\ wk_pc = "done" =>
          \A f \in ToSet(wk_files) \ wk_timedOut :
             HasResult(wk_output, f, processFile(f, wk_disk))

\* ------------------------------------------------------------------------
\* C12: when a worker crashes while it holds a file, a replacement worker is
\* started, the file is posted a second time before it counts as failed,
\* and the files still queued are all processed.
\* ------------------------------------------------------------------------
Cex_C12_CrashRespawn ==
  (wk_crashed # {} /\ AllLoopsEnded) =>
     /\ \A f \in wk_crashed : wk_attempts[f] >= 2
     /\ Cardinality({ w \in DOMAIN wk_workers : wk_workers[w] # "crashed" })
          >= WorkerCount(wk_maxWorkers, Len(wk_files))
     /\ wk_fileQueue = <<>>

\* ------------------------------------------------------------------------
\* C13: at every moment the files in flight and the live workers number at
\* most maxWorkers = max(1, cpuCount - 1); the pool has min(maxWorkers,
\* number of files) workers, each holding at most one file; the chunked
\* pool cuts at most maxWorkers chunks with the default chunk size.
\* ------------------------------------------------------------------------
Thm_C13_AtMostMaxWorkers ==
  /\ wk_maxWorkers = Max(1, wk_cpus - 1)
  /\ Cardinality(wk_inflight) <= wk_maxWorkers
  /\ Cardinality(LiveWorkers) <= wk_maxWorkers
  /\ wk_pc = "pool" => Len(wk_workers) = Min(wk_maxWorkers, Len(wk_files))
  /\ \A w \in DOMAIN wk_workers : Cardinality(HeldBy(w)) <= 1
  /\ Len(pl_chunks) <= pl_maxWorkers

\* both workers of a two-worker pool hold a file while files are queued
Wit_C13 ==
  /\ wk_pc = "pool"
  /\ wk_maxWorkers = 2
  /\ Cardinality(wk_inflight) = 2
  /\ wk_fileQueue # <<>>

\* ------------------------------------------------------------------------
\* C14: for a file list of any length the output holds, for each file, the
\* issues the analyzers of processFile produce on its text.
\* ------------------------------------------------------------------------
Cex_C14_IssuesOfEveryFile ==
  wk_pc = "done" =>
     \A f \in ToSet(wk_files) :
        \E j \in 1..Len(wk_output) :
           /\ wk_output[j].file = f
           /\ wk_disk[f].readable =>
                wk_output[j].issues = analyzeComplexity(wk_disk[f], f)

\* ------------------------------------------------------------------------
\* Reference notions for the cache
\* ------------------------------------------------------------------------
\* an entry file at `path` that is present, of this build and young enough
Honoured(store, path, maxAge, now) ==
  /\ path \in DOMAIN store
  /\ store[path].kind = "json"
  /\ store[path].version = CACHE_VERSION
  /\ now - store[path].timestamp <= maxAge

AskedPath == getCachePath(KeyOf(cs_asked))

\* ------------------------------------------------------------------------
\* C15: getCache(key, maxAge) returns the stored payload if and only if an
\* entry exists for the key, was written by this CACHE_VERSION and
\* now - timestamp <= maxAge; otherwise it returns null.
\* ------------------------------------------------------------------------
Thm_C15_HonouredOrMiss ==
  cs_pc = "clear" =>
     /\ ~cs_result.isNull <=> Honoured(cs_store, AskedPath, cs_maxAge, cs_now)
     /\ ~cs_result.isNull => cs_result.data = cs_store[AskedPath].data
     /\ cs_result.isNull => cs_result = NullIssues

\* a hit on an entry exactly maxAge old, next to an entry of another build
Wit_C15 ==
  /\ cs_pc = "clear"
  /\ ~cs_result.isNull
  /\ cs_now - cs_store[AskedPath].timestamp = cs_maxAge
  /\ \E k \in DOMAIN cs_store : cs_store[k].kind # "json" \/ cs_store[k].version # CACHE_VERSION

\* ------------------------------------------------------------------------
\* Reference notions for runScan and its cache
\* ------------------------------------------------------------------------
\* the unused-import issues of a scan in which every lookup misses
RECURSIVE ScratchIssues(_, _)
ScratchIssues(fs, disk) ==
  IF fs = <<>> THEN <<>>
  ELSE FileIssues(Head(fs), disk[Head(fs)]) \o ScratchIssues(Tail(fs), disk)

UnusedOf(issues) ==
  LET IsUnused(i) == i.type = "unused_import"
  IN SelectSeq(issues, IsUnused)

\* the entry file of a scanned file with its present text
EntryPath(f) == getCachePath(getFileCacheKey(f, OpScan, sc_disk, sc_readError))

\* ------------------------------------------------------------------------
\* C16: a missing cache directory, an unreadable or non-JSON entry, or a
\* failing cache write never surfaces as an error: the lookup is a miss,
\* the write is skipped, and the scan reports the issues of a scan in which
\* every lookup misses; only an unreadable source file ends a scan early.
\* ------------------------------------------------------------------------
Thm_C16_CacheIsAdvisory ==
  /\ sc_pc = "done" => UnusedOf(sc_report[1].issues) = ScratchIssues(sc_files, sc_disk)
  /\ sc_pc = "exit" => \E f \in ToSet(sc_files) : sc_readError[f] # "none"
  /\ (sc_pc = "push" /\ sc_files[sc_idx] \in sc_hits) =>
        Honoured(sc_cache, EntryPath(sc_files[sc_idx]), DefaultMaxAge, sc_now)

\* a scan completed over a directory of non-JSON entries it cannot write to
Wit_C16 ==
  /\ sc_pc = "done"
  /\ ~sc_noCache
  /\ ~sc_cacheWritable
  /\ \E f \in ToSet(sc_files) :
       /\ EntryPath(f) \in DOMAIN sc_cache
       /\ sc_cache[EntryPath(f)].kind = "garbage"
       /\ f \in sc_calls
  /\ UnusedOf(sc_report[1].issues) # <<>>

\* ------------------------------------------------------------------------
\* C17: two different (operation, path, contentHash) triples never share a
\* cache key or entry: a lookup for one triple never returns the payload
\* stored for another, also when a path or operation contains ':' or the
\* hash could not be computed.
\* ------------------------------------------------------------------------
Cex_C17_TriplesNeverCollide ==
  (cs_pc = "clear" /\ ~cs_result.isNull) => cs_result.data = PayloadFor(cs_asked)

\* ------------------------------------------------------------------------
\* Reference notions for two scans of one tree
\* ------------------------------------------------------------------------
SecondScanDone == sc_run = 2 /\ sc_pc = "done"

\* the two reports agree on the issues (as a collection) and on the stats
SameIssuesAndStats(r1, r2) ==
  /\ ToSet(r1.issues) = ToSet(r2.issues)
  /\ Len(r1.issues) = Len(r2.issues)
  /\ r1.stats = r2.stats

\* the unused-import issues a report lists for file f
ReportedFor(report, f) ==
  LET IsOfFile(i) == i.type = "unused_import" /\ i.file = relative(Root, f)
  IN SelectSeq(report.issues, IsOfFile)

Cex_C20_OrderIndependent ==
  (SecondScanDone /\ sc_modified = {}) =>
     sc_report[1].issues = sc_firstReport[1].issues

\* ------------------------------------------------------------------------
\* C21: when one analyzer of the worker's processFile throws on a file, the
\* issues the other analyzers report for that file are still in the file's
\* result.
\* ------------------------------------------------------------------------
Cex_C21_OtherAnalyzersKept ==
  (wk_pc = "done" /\ Len(wk_files) >= SMALL_INPUT) =>
     \A j \in 1..Len(wk_output) :
        wk_disk[wk_output[j].file].readable =>
           \A k \in 1..Len(analyzeComplexity(wk_disk[wk_output[j].file], wk_output[j].file)) :
              Includes(wk_output[j].issues,
                       analyzeComplexity(wk_disk[wk_output[j].file], wk_output[j].file)[k])

\* ------------------------------------------------------------------------
\* C30: in a run of processFilesInParallel in which no worker times out or
\* crashes, every file is posted to one worker, once, and is once in the
\* flattened result; onProgress is called once per file, its count rising
\* from 1 to the number of files.
\* ------------------------------------------------------------------------
Thm_C30_EachFileOnce ==
  (wk_timedOut = {} /\ wk_crashed = {}) =>
     /\ \A f \in ToSet(wk_files) :
           /\ wk_attempts[f] <= 1
           /\ Cardinality({ p \in wk_inflight : p[2] = f }) <= 1
     /\ wk_progress = [i \in 1..Len(wk_progress) |-> << i, Len(wk_files) >>]
     /\ wk_pc = "done" =>
           /\ Len(wk_output) = Len(wk_files)
           /\ \A f \in ToSet(wk_files) :
                 /\ Cardinality({ j \in 1..Len(wk_output) : wk_output[j].file = f }) = 1
                 /\ Len(wk_files) >= SMALL_INPUT => wk_attempts[f] = 1
           /\ Len(wk_progress) = Len(wk_files)

\* two workers have shared the files of a run that ended without failure
Wit_C30 ==
  /\ wk_pc = "done"
  /\ wk_timedOut = {} /\ wk_crashed = {}
  /\ Len(wk_workerResults) = 2
  /\ \A w \in 1..2 : Len(wk_workerResults[w]) >= 2
  /\ Len(wk_progress) = Len(wk_files)

\* ------------------------------------------------------------------------
\* C23: when the scan is started with --no-cache, no cache key is computed,
\* the cache directory is neither read nor written, and every file is
\* analysed from its text.
\* ------------------------------------------------------------------------
Cex_C23_NoCacheFlagBypasses ==
  Includes(sc_argv, "--no-cache") =>
     /\ sc_key = NullKey
     /\ sc_pc # "store"
     /\ sc_hits = {}
     /\ sc_cache = sc_startCache

\* ------------------------------------------------------------------------
\* C26: in runScan the dead-file pass starts only when the per-file pass
\* has finished every file, the report is assembled only after the
\* dead-file pass, and while the per-file pass runs nothing of the
\* dead-file pass exists.
\* ------------------------------------------------------------------------
InFileLoop == sc_pc \in {"key", "lookup", "read", "store", "push"}

Thm_C26_PhasesInOrder ==
  /\ InFileLoop => sc_deadFiles = <<>> /\ sc_report = <<>>
  /\ sc_pc \in {"dead", "stale", "done"} =>
        /\ sc_idx > Len(sc_files)
        /\ sc_calls \cup sc_hits = ToSet(sc_files)
  /\ sc_pc = "dead" => sc_report = <<>>
  /\ sc_report # <<>> =>
        /\ sc_pc = "done"
        /\ sc_report[1].stats.dead_files = Len(sc_deadFiles)
        /\ \A i \in 1..Len(sc_deadFiles) :
              \E j \in 1..Len(sc_report[1].issues) :
                 /\ sc_report[1].issues[j].type = "dead_file"
                 /\ sc_report[1].issues[j].file = sc_deadFiles[i]

\* the report of a scan of two files, one of them dead
Wit_C26 ==
  /\ sc_pc = "done"
  /\ Len(sc_files) = 2
  /\ Len(sc_deadFiles) >= 1
  /\ sc_report # <<>>

\* ------------------------------------------------------------------------
\* C29: every cache entry runScan writes under the key (scan, path, h)
\* holds the issues of the text whose hash is h, also when the file is
\* saved between the read of getFileHash and the read of the analysis.
\* ------------------------------------------------------------------------
Cex_C29_EntryMatchesHash ==
  \A f \in ToSet(sc_files), t \in ScanTexts :
     LET path == getCachePath(CacheKey(OpScan, PathString(f), Hash(t)))
     IN (/\ path \in DOMAIN sc_cache
         /\ path \in DOMAIN sc_startCache => sc_cache[path] # sc_startCache[path])
          => sc_cache[path].data = FileIssues(f, t)

\* ------------------------------------------------------------------------
\* Reference notions for the unused-import pass
\* ------------------------------------------------------------------------
\* The local names an import statement binds (ECMAScript ImportClause: the
\* default binding, the namespace binding, the last name of every import
\* specifier; `type` before the clause or a specifier is a modifier).
BoundNames(statement) ==
  LET IsLocal(i) ==
        /\ IsIdentifier(statement[i])
        /\ statement[i] \notin { "import", "from", "as" }
        /\ statement[i + 1] \in { ",", "}", "from" }
        /\ ~(statement[i] = "type" /\ statement[i - 1] = "import"
               /\ statement[i + 1] # "from")
  IN { statement[i] : i \in { k \in 2..(Len(statement) - 1) : IsLocal(k) } }

ReportedSymbols == { im_issues[k].symbol : k \in 1..Len(im_issues) }

\* ------------------------------------------------------------------------
\* C24: bad.js of the test suite yields exactly one unused_import issue, for
\* `join`; with a call of join it yields none for `join`; in general a local
\* name bound by an import statement is reported exactly when the text
\* outside that statement has no whole-word occurrence of it.
\* ------------------------------------------------------------------------
Cex_C24_UnusedIffNoOccurrence ==
  im_pc = "done" =>
     /\ im_code = TextUnused =>
           Len(im_issues) = 1 /\ im_issues[1].symbol = << "join" >>
     /\ im_code = TextUsed => << "join" >> \notin ReportedSymbols
     /\ LET ms == ImportMatches(im_code, 1, IsTypeScript(im_file))
        IN \A i \in 1..Len(ms) :
              \A name \in BoundNames(SubSeq(im_code, ms[i].index, ms[i].last)) :
                 (<< name >> \in ReportedSymbols)
                   <=> ~Includes(BodyWithout(im_code, ms[i].index, ms[i].last), name)

\* ------------------------------------------------------------------------
\* C27: batchProcess never has more than `concurrency` calls of processFn
\* running, whatever the number of items and the order in which the calls
\* settle, and it resolves to the results in the order of items.
\* ------------------------------------------------------------------------
Thm_C27_AtMostConcurrency ==
  /\ Cardinality(Running) <= bp_concurrency
  /\ bp_peak <= bp_concurrency
  /\ bp_pc = "done" =>
        bp_output = [k \in 1..Len(bp_items) |-> processFn(bp_items[k])]

\* more items than slots: every slot was in use at once, and the run resolved
Wit_C27 ==
  /\ bp_pc = "done"
  /\ bp_concurrency = 2
  /\ Len(bp_items) > bp_concurrency
  /\ bp_peak = bp_concurrency

\* ------------------------------------------------------------------------
\* C22: when the user interrupts the process while a scan runs, the scan
\* returns the report of what was analysed so far, marked incomplete.
\* ------------------------------------------------------------------------
Cex_C22_PartialReportOnInterrupt ==
  wt_interrupted =>
     /\ Len(wt_reports) = wt_scans + 1
     /\ Last(wt_reports) = "incomplete"

\* ------------------------------------------------------------------------
\* C25: in watch mode every change, add or unlink event is eventually
\* followed by a re-scan that starts after it, unless the user stops the
\* watcher: also an event that arrives during the debounce delay or during
\* a scan, and also after a scan that ended with an error.
\* ------------------------------------------------------------------------
Cex_C25_EventLeadsToScan ==
  wt_unserved ~> (~wt_unserved \/ wt_exit = "sigint")

\* ------------------------------------------------------------------------
\* C28: in watch mode at most one call of debouncedScan is between its
\* timer and the end of its scan; an event that arrives while isScanning is
\* set changes nothing but scanQueued; when a scan returns, the events that
\* arrived since its call began start exactly one follow-up call, and none
\* starts when there were none.
\* ------------------------------------------------------------------------
OnlyQueues ==
  /\ wt_scanQueued'
  /\ UNCHANGED << wt_isScanning, wt_timers, wt_running, wt_scans, wt_reports >>

OneFollowUp ==
  /\ wt_timers' = (IF wt_scanQueued THEN 1 ELSE 0)
  /\ wt_running' = 0
  /\ ~wt_scanQueued'
  /\ wt_isScanning' = wt_scanQueued

Thm_C28_OneScanAtATime ==
  /\ [](wt_timers + wt_running <= 1)
  /\ []((wt_timers + wt_running = 1) <=> wt_isScanning)
  /\ [](wt_scanQueued => wt_isScanning)
  /\ [][(wt_events' # wt_events /\ wt_isScanning) => OnlyQueues]_vars
  /\ [][(Len(wt_reports') > Len(wt_reports) /\ wt_pc = "watching") => OneFollowUp]_vars

\* a scan runs, and events that arrived meanwhile are queued
Wit_C28 ==
  /\ wt_running = 1
  /\ wt_scanQueued
  /\ wt_events >= 3
  /\ wt_scans = 1

====
